---- MODULE Spec2Model ----
(***************************************************************************)
(* JuggleJam: the React component SimpleGameEngine (full engine with menu, *)
(* store, leaderboard, achievements and daily rewards), and the two        *)
(* earlier engine variants: the flap engine and the radial engine.  The    *)
(* variable engine says which component is mounted.                        *)
(*                                                                         *)
(* React is modelled by its contract: gameState is the result of applying  *)
(* every queued setGameState updater in order; closure is the part of the  *)
(* state captured by the callbacks of the last render.  A press handler is *)
(* a discrete event and is followed by a render in the same step; updates  *)
(* issued from timers and promises (the 16 ms interval, setTimeout(0), the *)
(* startup load) are rendered right after the callback, or by a later      *)
(* Render step when another callback runs first.                           *)
(*                                                                         *)
(* Numbers of the physics are fixed-point, in thousandths of a unit.       *)
(*                                                                         *)
(* History variables: lastOp names the last step taken, inputs counts the  *)
(* optional inputs consumed, runCoins sums the values of the coins the     *)
(* ticks collected since the last start or restart, submitted holds the    *)
(* submitScore calls of the leaderboard specification, rejected the keys   *)
(* of the writes that storage refused in the last step.  screenWidth is    *)
(* the width of the window, SCREEN_WIDTH except where the walls are        *)
(* studied on their own.                                                   *)
(***************************************************************************)
EXTENDS Integers, Sequences, FiniteSets, TLC

VARIABLES engine, gameState, closure, pending, timers, storage, saved,
          loadState, now, inputs, games, lastOp, runCoins, submitted,
          rejected, screenWidth

vars == <<engine, gameState, closure, pending, timers, storage, saved,
          loadState, now, inputs, games, lastOp, runCoins, submitted,
          rejected, screenWidth>>

----------------------------------------------------------------------------
(* Bounds of the model *)

\* optional inputs consumed in one session: random spawns, taps, presses
\* on the continue, daily reward and store buttons, games after the first,
\* renders that React puts off until after the next callback, and steps
\* taken before the reads of the startup load resolve
MaxInputs == 2
\* spawns and taps happen only while score is below this many ticks
MaxInputScore == 1
\* submitScore calls of the leaderboard specification
MaxSubmissions == 3
\* ticks between the taps of the tap handler specification
MaxTouchTicks == 2
\* ticks of the world specification
MaxWorldTicks == 3

----------------------------------------------------------------------------
(* Numbers *)

Units(n) == n * 1000

Abs(v) == IF v < 0 THEN -v ELSE v
Min(a, b) == IF a < b THEN a ELSE b
Max(a, b) == IF a > b THEN a ELSE b

\* v * num / den, rounded toward zero
MulFrac(v, num, den) ==
  IF v >= 0 THEN (v * num) \div den ELSE -(((-v) * num) \div den)

\* Math.floor(a / b) for b > 0
FloorDiv(a, b) == a \div b

----------------------------------------------------------------------------
(* Strings kept in storage *)

Null == <<>>
Truthy(item) == item # <<>>

RECURSIVE Digits(_)
Digits(n) == IF n < 10 THEN <<n>> ELSE Append(Digits(n \div 10), n % 10)

\* value.toString() of a number: its decimal digits, -1 standing for "-"
NumToString(n) == IF n < 0 THEN <<-1>> \o Digits(-n) ELSE Digits(n)

RECURSIVE DigitsValue(_)
DigitsValue(s) ==
  IF s = <<>> THEN 0 ELSE DigitsValue(SubSeq(s, 1, Len(s) - 1)) * 10 + s[Len(s)]

\* a character that is neither a digit nor a sign
Letter == 10

\* Number.NaN, the result of parseInt on a text without a leading digit
NaN == -999999999

RECURSIVE DigitPrefix(_)
DigitPrefix(s) ==
  IF s = <<>> \/ s[1] \notin 0 .. 9 THEN <<>> ELSE <<s[1]>> \o DigitPrefix(Tail(s))

\* parseInt(s, 10): the value of the longest numeric prefix
parseInt(s) ==
  LET negative == s # <<>> /\ s[1] = -1
      digits == DigitPrefix(IF negative THEN Tail(s) ELSE s)
  IN IF digits = <<>> THEN NaN
     ELSE IF negative THEN -DigitsValue(digits) ELSE DigitsValue(digits)

\* JSON.stringify / JSON.parse of plain data
JSONstringify(v) == <<v>>
JSONparse(s) == s[1]

\* a stored text that is not JSON, and JSON.parse throwing a SyntaxError
Malformed == <<Letter, Letter>>
SyntaxError(s) == Len(s) # 1

\* Date.toDateString(): one string per calendar day
toDateString(day) == <<day>>

----------------------------------------------------------------------------
(* Configuration *)

\* Dimensions.get('window')
SCREEN_WIDTH == Units(60)
SCREEN_HEIGHT == Units(1000)

gravity == 300
ballRadius == Units(25)
obstacleSpeed == 1500

\* new Date(): the calendar day of the session
Today == 10

\* the skins of BALL_SKINS the model presses on
SkinIds == <<"classic", "basketball">>

coinPrice(skinId) ==
  CASE skinId = "classic" -> 0
    [] skinId = "basketball" -> 100

cashPrice(skinId) ==
  CASE skinId = "classic" -> 0
    [] skinId = "basketball" -> 99

DAILY_REWARDS ==
  << [day |-> 1, coins |-> 10, claimed |-> FALSE],
     [day |-> 2, coins |-> 15, claimed |-> FALSE],
     [day |-> 3, coins |-> 20, claimed |-> FALSE],
     [day |-> 4, coins |-> 25, claimed |-> FALSE],
     [day |-> 5, coins |-> 30, claimed |-> FALSE],
     [day |-> 6, coins |-> 40, claimed |-> FALSE],
     [day |-> 7, coins |-> 50, claimed |-> FALSE] >>

AchievementIds ==
  <<"first_game", "collect_50_coins", "survive_60s", "play_10_games",
    "collect_3_skins", "collect_100_one_game", "survive_120s", "login_streak">>

requirement(id) ==
  CASE id = "first_game" -> 1
    [] id = "collect_50_coins" -> 50
    [] id = "survive_60s" -> 60
    [] id = "play_10_games" -> 10
    [] id = "collect_3_skins" -> 3
    [] id = "collect_100_one_game" -> 100
    [] id = "survive_120s" -> 120
    [] id = "login_streak" -> 7

reward(id) ==
  CASE id = "first_game" -> 10
    [] id = "collect_50_coins" -> 20
    [] id = "survive_60s" -> 30
    [] id = "play_10_games" -> 25
    [] id = "collect_3_skins" -> 40
    [] id = "collect_100_one_game" -> 50
    [] id = "survive_120s" -> 75
    [] id = "login_streak" -> 100

INITIAL_ACHIEVEMENTS ==
  [i \in 1..Len(AchievementIds) |->
     [id |-> AchievementIds[i],
      progress |-> IF AchievementIds[i] = "collect_3_skins" THEN 1 ELSE 0,
      completed |-> FALSE]]

\* Multipliers are exact fractions with this denominator:
\* 1 + (score/60/120)*0.8 = 1 + score/9000 = (27000 + 3*score)/27000
\* 1 + (score/60/90)*2    = 1 + score/2700 = (27000 + 10*score)/27000
MultiplierDen == 27000

\* a difficulty that keeps growing after two minutes
getDifficultyMultiplierUncapped(score) ==
  [speedMultiplier |-> MultiplierDen + 3 * score,
   spawnMultiplier |-> MultiplierDen + 10 * score]

getDifficultyMultiplier(score) ==
  [speedMultiplier |-> Min(MultiplierDen + 3 * score, (22 * MultiplierDen) \div 10),
   spawnMultiplier |-> Min(MultiplierDen + 10 * score, (35 * MultiplierDen) \div 10)]

----------------------------------------------------------------------------
(* The component state *)

CentreBall(vy) ==
  [x |-> SCREEN_WIDTH \div 2, y |-> SCREEN_HEIGHT \div 2,
   vx |-> 0, vy |-> vy, radius |-> ballRadius]

InitialGameState ==
  [ball |-> CentreBall(0),
   obstacles |-> <<>>,
   coins |-> <<>>,
   score |-> 0,
   highScore |-> 0,
   collectedCoins |-> 0,
   currentScreen |-> "menu",
   selectedSkin |-> "classic",
   unlockedSkins |-> <<"classic">>,
   adsRemoved |-> FALSE,
   leaderboard |-> <<>>,
   playerName |-> "Player",
   leaderboardCategory |-> "time",
   dailyRewards |-> DAILY_REWARDS,
   lastLoginDate |-> <<>>,
   currentStreak |-> 0,
   achievements |-> INITIAL_ACHIEVEMENTS,
   totalGamesPlayed |-> 0,
   canWatchAdToContinue |-> FALSE]

\* what the callbacks of a render read from their captured gameState
Closure(gs) ==
  [currentScreen |-> gs.currentScreen,
   score |-> gs.score,
   highScore |-> gs.highScore,
   collectedCoins |-> gs.collectedCoins,
   selectedSkin |-> gs.selectedSkin,
   unlockedSkins |-> gs.unlockedSkins,
   leaderboard |-> gs.leaderboard,
   playerName |-> gs.playerName,
   dailyRewards |-> gs.dailyRewards,
   lastLoginDate |-> gs.lastLoginDate,
   currentStreak |-> gs.currentStreak,
   canWatchAdToContinue |-> gs.canWatchAdToContinue]

EmptyStorage ==
  [juggleJamHighScore |-> Null, juggleJamCoins |-> Null,
   juggleJamUnlockedSkins |-> Null, juggleJamSelectedSkin |-> Null,
   juggleJamAdsRemoved |-> Null, juggleJamLeaderboard |-> Null,
   juggleJamPlayerName |-> Null, juggleJamDailyRewards |-> Null,
   juggleJamLastLoginDate |-> Null, juggleJamCurrentStreak |-> Null,
   juggleJamAchievements |-> Null, juggleJamTotalGamesPlayed |-> Null]

----------------------------------------------------------------------------
(* Effects of a handler: the state after its queued updaters, the storage  *)
(* after its writes, the setTimeout callbacks it scheduled                 *)

Ctx(gs, st, tm) == [gs |-> gs, storage |-> st, timers |-> tm]

\* saveData: AsyncStorage.setItem(key, stringValue)
saveData(ctx, key, item) == [ctx EXCEPT !.storage[key] = item]

saveHighScore(ctx, score) == saveData(ctx, "juggleJamHighScore", NumToString(score))
saveCoins(ctx, coins) == saveData(ctx, "juggleJamCoins", NumToString(coins))
saveUnlockedSkins(ctx, skins) == saveData(ctx, "juggleJamUnlockedSkins", JSONstringify(skins))
saveSelectedSkin(ctx, skin) == saveData(ctx, "juggleJamSelectedSkin", <<skin>>)
saveLeaderboard(ctx, lb) == saveData(ctx, "juggleJamLeaderboard", JSONstringify(lb))
saveDailyRewards(ctx, rewards) == saveData(ctx, "juggleJamDailyRewards", JSONstringify(rewards))
saveLastLoginDate(ctx, date) == saveData(ctx, "juggleJamLastLoginDate", date)
saveCurrentStreak(ctx, streak) == saveData(ctx, "juggleJamCurrentStreak", NumToString(streak))
saveAchievements(ctx, achievements) == saveData(ctx, "juggleJamAchievements", JSONstringify(achievements))
saveTotalGamesPlayed(ctx, total) == saveData(ctx, "juggleJamTotalGamesPlayed", NumToString(total))

----------------------------------------------------------------------------
(* Achievements *)

\* an update that stores the sample whatever the achievement holds
AchievementAfterOverwrites(achievement, achievementId, progress) ==
  IF achievement.id = achievementId
  THEN [achievement EXCEPT !.progress = progress,
                           !.completed = (progress >= requirement(achievement.id))]
  ELSE achievement

\* the updater of updateAchievementProgress applied to one achievement
AchievementAfter(achievement, achievementId, progress) ==
  IF achievement.id = achievementId /\ ~achievement.completed
  THEN LET newProgress == Max(achievement.progress, progress)
       IN [achievement EXCEPT !.progress = newProgress,
                              !.completed = (newProgress >= requirement(achievement.id))]
  ELSE achievement

\* the achievements this update completes
NewlyCompleted(achievements, achievementId, progress) ==
  {i \in DOMAIN achievements :
     /\ achievements[i].id = achievementId
     /\ ~achievements[i].completed
     /\ Max(achievements[i].progress, progress) >= requirement(achievements[i].id)}

\* coins written by the updater for a completed achievement: prev.collectedCoins + reward
RewardCoins(prev, achievementId) == prev.collectedCoins + reward(achievementId)

\* (ctx names the value of ctx0, computed once)
updateAchievementProgress(ctx0, achievementId, progress) ==
  CHOOSE result \in {
  LET prev == ctx.gs
      updatedAchievements ==
        [i \in DOMAIN prev.achievements |->
           AchievementAfter(prev.achievements[i], achievementId, progress)]
      done == NewlyCompleted(prev.achievements, achievementId, progress) # {}
      newCoins == RewardCoins(prev, achievementId)
      c1 == IF done
            THEN [saveCoins(ctx, newCoins) EXCEPT
                    !.timers = Append(ctx.timers, [achievementId |-> achievementId,
                                                   newCoins |-> newCoins])]
            ELSE ctx
      c2 == saveAchievements(c1, updatedAchievements)
  IN [c2 EXCEPT !.gs.achievements = updatedAchievements]
  : ctx \in {ctx0} } : TRUE

----------------------------------------------------------------------------
(* updatePhysics *)

\* Math.sqrt(dx^2 + dy^2) < r, without leaving 32-bit integers
DistanceLess(dx, dy, r) ==
  /\ Abs(dx) < r
  /\ Abs(dy) < r
  /\ dx * dx < r * r - dy * dy

Advance(e) == [e EXCEPT !.x = e.x + e.vx, !.y = e.y + e.vy]

\* a window that keeps the entities on its border
InWindowClosed(e) ==
  /\ e.x >= -Units(100)
  /\ e.x <= SCREEN_WIDTH + Units(100)
  /\ e.y >= -Units(100)
  /\ e.y <= SCREEN_HEIGHT + Units(100)

InWindow(e) ==
  /\ e.x > -Units(100)
  /\ e.x < SCREEN_WIDTH + Units(100)
  /\ e.y > -Units(100)
  /\ e.y < SCREEN_HEIGHT + Units(100)

AdvanceAndCull(entities) ==
  SelectSeq([i \in DOMAIN entities |-> Advance(entities[i])], InWindow)

obstacleWidth(type) == IF type = "cone" THEN Units(30) ELSE IF type = "goalpost" THEN Units(20) ELSE Units(40)
\* obstacles as high as they are wide
obstacleHeightSquare(type) == obstacleWidth(type)
obstacleHeight(type) == IF type = "cone" THEN Units(40) ELSE IF type = "goalpost" THEN Units(80) ELSE Units(60)

newObstacle(side, type, y, speedMultiplier) ==
  [x |-> IF side = "left" THEN -Units(50) ELSE SCREEN_WIDTH + Units(50),
   y |-> y,
   vx |-> IF side = "left"
          THEN MulFrac(obstacleSpeed, speedMultiplier, MultiplierDen)
          ELSE -MulFrac(obstacleSpeed, speedMultiplier, MultiplierDen),
   vy |-> 0,
   type |-> type,
   width |-> obstacleWidth(type),
   height |-> obstacleHeight(type)]

newCoin(side, value, y, speedMultiplier) ==
  [x |-> IF side = "left" THEN -Units(30) ELSE SCREEN_WIDTH + Units(30),
   y |-> y,
   vx |-> IF side = "left"
          THEN MulFrac(1500, speedMultiplier, MultiplierDen)
          ELSE -MulFrac(1500, speedMultiplier, MultiplierDen),
   vy |-> 0,
   radius |-> Units(15),
   value |-> value]

\* a collision check that counts the obstacles at the very edge of the reach
ObstacleHitsClosed(ball, obstacle) ==
  LET dx == ball.x - (obstacle.x + obstacle.width \div 2)
      dy == ball.y - (obstacle.y + obstacle.height \div 2)
      r == ballRadius + Min(obstacle.width, obstacle.height) \div 2
  IN DistanceLess(dx, dy, r) \/ (Abs(dx) <= r /\ Abs(dy) <= r /\ dx * dx = r * r - dy * dy)

ObstacleHits(ball, obstacle) ==
  DistanceLess(ball.x - (obstacle.x + obstacle.width \div 2),
               ball.y - (obstacle.y + obstacle.height \div 2),
               ballRadius + Min(obstacle.width, obstacle.height) \div 2)

\* a collection that takes the coins at the very edge of the reach
CoinTouchesClosed(ball, coin) ==
  LET dx == ball.x - coin.x
      dy == ball.y - coin.y
      r == ballRadius + coin.radius
  IN DistanceLess(dx, dy, r) \/ (Abs(dx) <= r /\ Abs(dy) <= r /\ dx * dx = r * r - dy * dy)

CoinTouches(ball, coin) ==
  DistanceLess(ball.x - coin.x, ball.y - coin.y, ballRadius + coin.radius)

\* a ground check that lets the ball rest on the line
GroundHitStrict(ball) == ball.y > SCREEN_HEIGHT - ballRadius

\* the ground check
GroundHit(ball) == ball.y >= SCREEN_HEIGHT - ballRadius

\* a step that damps the velocity before it moves the ball
BallAfterDampsFirst(ball) ==
  LET vx2 == MulFrac(ball.vx, 95, 100)
      vy2 == MulFrac(ball.vy + gravity, 99, 100)
      x1 == ball.x + vx2
      y1 == ball.y + vy2
      left == x1 <= ballRadius
      x2 == IF left THEN ballRadius ELSE x1
      vx3 == IF left THEN MulFrac(Abs(vx2), 7, 10) ELSE vx2
      right == x2 >= SCREEN_WIDTH - ballRadius
      x3 == IF right THEN SCREEN_WIDTH - ballRadius ELSE x2
      vx4 == IF right THEN -MulFrac(Abs(vx3), 7, 10) ELSE vx3
  IN [ball EXCEPT !.x = x3, !.y = y1, !.vx = vx4, !.vy = vy2]

\* walls that stop the ball without turning it round
BallAfterInSlides(ball, width) ==
  LET vy1 == ball.vy + gravity
      x1 == ball.x + ball.vx
      y1 == ball.y + vy1
      vx2 == MulFrac(ball.vx, 95, 100)
      vy2 == MulFrac(vy1, 99, 100)
      x2 == IF x1 <= ballRadius THEN ballRadius ELSE x1
      x3 == IF x2 >= width - ballRadius THEN width - ballRadius ELSE x2
  IN [ball EXCEPT !.x = x3, !.y = y1, !.vx = MulFrac(vx2, 7, 10), !.vy = vy2]

\* gravity, integration, friction and the two walls of a window of the
\* given width
BallAfterIn(ball, width) ==
  LET vy1 == ball.vy + gravity
      x1 == ball.x + ball.vx
      y1 == ball.y + vy1
      vx2 == MulFrac(ball.vx, 95, 100)
      vy2 == MulFrac(vy1, 99, 100)
      left == x1 <= ballRadius
      x2 == IF left THEN ballRadius ELSE x1
      vx3 == IF left THEN MulFrac(Abs(vx2), 7, 10) ELSE vx2
      right == x2 >= width - ballRadius
      x3 == IF right THEN width - ballRadius ELSE x2
      vx4 == IF right THEN -MulFrac(Abs(vx3), 7, 10) ELSE vx3
  IN [ball EXCEPT !.x = x3, !.y = y1, !.vx = vx4, !.vy = vy2]

BallAfter(ball) == BallAfterIn(ball, SCREEN_WIDTH)

\* a collection loop that a run that has just ended skips
RECURSIVE CollectCoinsWhilePlaying(_, _, _)
CollectCoinsWhilePlaying(ctx0, ball, i) ==
  CHOOSE result \in {
  IF i = 0 \/ ctx.gs.currentScreen = "gameOver" THEN ctx
  ELSE LET coin == ctx.gs.coins[i]
       IN IF CoinTouches(ball, coin)
          THEN LET total == ctx.gs.collectedCoins + coin.value
                   c1 == [ctx EXCEPT !.gs.collectedCoins = total,
                                     !.gs.coins = SubSeq(ctx.gs.coins, 1, i - 1)
                                                  \o SubSeq(ctx.gs.coins, i + 1, Len(ctx.gs.coins))]
               IN CollectCoinsWhilePlaying(saveCoins(c1, total), ball, i - 1)
          ELSE CollectCoinsWhilePlaying(ctx, ball, i - 1)
  : ctx \in {ctx0} } : TRUE

\* the coin collection loop, from the last coin down to the first
RECURSIVE CollectCoins(_, _, _)
CollectCoins(ctx0, ball, i) ==
  CHOOSE result \in {
  IF i = 0 THEN ctx
  ELSE LET coin == ctx.gs.coins[i]
       IN IF CoinTouches(ball, coin)
          THEN LET total == ctx.gs.collectedCoins + coin.value
                   c1 == [ctx EXCEPT !.gs.collectedCoins = total,
                                     !.gs.coins = SubSeq(ctx.gs.coins, 1, i - 1)
                                                  \o SubSeq(ctx.gs.coins, i + 1, Len(ctx.gs.coins))]
               IN CollectCoins(saveCoins(c1, total), ball, i - 1)
          ELSE CollectCoins(ctx, ball, i - 1)
  : ctx \in {ctx0} } : TRUE

\* the updater of updatePhysics; rnd holds the outcomes of Math.random()
updatePhysicsUpdater(ctx, rnd) ==
  LET prev == ctx.gs
      mult == getDifficultyMultiplier(prev.score)
      ball == BallAfter(prev.ball)
      ground == GroundHit(ball)
      moved == AdvanceAndCull(prev.obstacles)
      obstacles == IF rnd.obstacle # <<>>
                   THEN Append(moved, newObstacle(rnd.obstacle[1].side, rnd.obstacle[1].type,
                                                  rnd.obstacle[1].y, mult.speedMultiplier))
                   ELSE moved
      hit == \E i \in DOMAIN obstacles : ObstacleHits(ball, obstacles[i])
      movedCoins == AdvanceAndCull(prev.coins)
      coins == IF rnd.coin # <<>>
               THEN Append(movedCoins, newCoin(rnd.coin[1].side, rnd.coin[1].value,
                                               rnd.coin[1].y, mult.speedMultiplier))
               ELSE movedCoins
      c1 == [ctx EXCEPT !.gs.ball = ball,
                        !.gs.currentScreen = IF ground \/ hit THEN "gameOver" ELSE prev.currentScreen,
                        !.gs.obstacles = obstacles,
                        !.gs.score = prev.score + 1,
                        !.gs.coins = coins]
  IN CollectCoins(c1, ball, Len(coins))

\* updatePhysics without its guard
updatePhysicsUnguarded(cl) == TRUE

\* the guard of updatePhysics, on the currentScreen captured by useCallback
updatePhysicsRuns(cl) == cl.currentScreen = "playing"

----------------------------------------------------------------------------
(* handleTouch *)

handleTouchRuns(cl) == cl.currentScreen = "playing"

\* a tap that adds the horizontal force to the whole prior velocity and the
\* upward force to the prior vertical velocity
handleTouchKeepsMomentum(prevState, touchX) ==
  LET deltaX == touchX - prevState.ball.x
      horizontalForce == IF deltaX > 0 THEN Units(2) ELSE IF deltaX < 0 THEN -Units(2) ELSE 0
      newVelX == prevState.ball.vx + horizontalForce
      newVelY == prevState.ball.vy - Units(5)
      clampedVelX == Max(-Units(4), Min(Units(4), newVelX))
      clampedVelY == Max(-Units(8), Min(Units(8), newVelY))
  IN [prevState EXCEPT !.ball.vx = clampedVelX, !.ball.vy = clampedVelY]

\* a tap that also lifts the ball by the upward force
handleTouchLiftsBall(prevState, touchX) ==
  LET deltaX == touchX - prevState.ball.x
      horizontalForce == IF deltaX > 0 THEN Units(2) ELSE IF deltaX < 0 THEN -Units(2) ELSE 0
      newVelX == MulFrac(prevState.ball.vx, 7, 10) + horizontalForce
      clampedVelX == Max(-Units(4), Min(Units(4), newVelX))
  IN [prevState EXCEPT !.ball.vx = clampedVelX, !.ball.vy = -Units(5),
                       !.ball.y = prevState.ball.y - Units(5)]

handleTouchUpdater(prevState, touchX) ==
  LET deltaX == touchX - prevState.ball.x
      horizontalForce == IF deltaX > 0 THEN Units(2) ELSE IF deltaX < 0 THEN -Units(2) ELSE 0
      newVelX == MulFrac(prevState.ball.vx, 7, 10) + horizontalForce
      newVelY == -Units(5)
      clampedVelX == Max(-Units(4), Min(Units(4), newVelX))
      clampedVelY == Max(-Units(8), Min(Units(8), newVelY))
  IN [prevState EXCEPT !.ball.vx = clampedVelX, !.ball.vy = clampedVelY]

----------------------------------------------------------------------------
(* Daily login *)

checkDailyLoginReward(ctx, cl) ==
  LET today == toDateString(Today)
      lastLogin == cl.lastLoginDate
      yesterdayString == toDateString(Today - 1)
      streak == IF lastLogin = yesterdayString THEN cl.currentStreak + 1 ELSE 1
      wraps == streak > 7
      newStreak == IF wraps THEN 1 ELSE streak
      fresh == [i \in DOMAIN DAILY_REWARDS |-> [DAILY_REWARDS[i] EXCEPT !.claimed = FALSE]]
      c1 == IF wraps
            THEN saveDailyRewards([ctx EXCEPT !.gs.dailyRewards = fresh], fresh)
            ELSE ctx
      c2 == [c1 EXCEPT !.gs.lastLoginDate = today, !.gs.currentStreak = newStreak]
      c3 == saveCurrentStreak(saveLastLoginDate(c2, today), newStreak)
  IN IF lastLogin # today
     THEN updateAchievementProgress(c3, "login_streak", newStreak)
     ELSE ctx

\* a claim that pays the reward and leaves its slot unclaimed
claimDailyRewardKeepsSlot(ctx, cl, day) ==
  LET rewardOfDay == cl.dailyRewards[day]
      c1 == [ctx EXCEPT !.gs.collectedCoins = ctx.gs.collectedCoins + rewardOfDay.coins]
  IN IF /\ day - 1 >= 0 /\ day - 1 < Len(cl.dailyRewards)
        /\ ~rewardOfDay.claimed /\ day <= cl.currentStreak
     THEN saveCoins(c1, cl.collectedCoins + rewardOfDay.coins)
     ELSE ctx

claimDailyReward(ctx, cl, day) ==
  LET rewardIndex == day - 1
      rewardOfDay == cl.dailyRewards[day]
      updatedRewards == [cl.dailyRewards EXCEPT ![day].claimed = TRUE]
      c1 == [ctx EXCEPT !.gs.dailyRewards = updatedRewards,
                        !.gs.collectedCoins = ctx.gs.collectedCoins + rewardOfDay.coins]
  IN IF /\ rewardIndex >= 0 /\ rewardIndex < Len(cl.dailyRewards)
        /\ ~rewardOfDay.claimed /\ day <= cl.currentStreak
     THEN saveCoins(saveDailyRewards(c1, updatedRewards), cl.collectedCoins + rewardOfDay.coins)
     ELSE ctx

----------------------------------------------------------------------------
(* Startup load *)

\* the setGameState of loadSavedData; sv holds the twelve items read
loadedState(prev, sv) ==
  [prev EXCEPT
     !.highScore = IF Truthy(sv.juggleJamHighScore) THEN parseInt(sv.juggleJamHighScore) ELSE 0,
     !.collectedCoins = IF Truthy(sv.juggleJamCoins) THEN parseInt(sv.juggleJamCoins) ELSE 0,
     !.unlockedSkins = IF Truthy(sv.juggleJamUnlockedSkins) THEN JSONparse(sv.juggleJamUnlockedSkins) ELSE <<"classic">>,
     !.selectedSkin = IF Truthy(sv.juggleJamSelectedSkin) THEN sv.juggleJamSelectedSkin[1] ELSE "classic",
     !.adsRemoved = (sv.juggleJamAdsRemoved = <<"true">>),
     !.leaderboard = IF Truthy(sv.juggleJamLeaderboard) THEN JSONparse(sv.juggleJamLeaderboard) ELSE <<>>,
     !.playerName = IF Truthy(sv.juggleJamPlayerName) THEN sv.juggleJamPlayerName[1] ELSE "Player",
     !.dailyRewards = IF Truthy(sv.juggleJamDailyRewards) THEN JSONparse(sv.juggleJamDailyRewards) ELSE DAILY_REWARDS,
     !.lastLoginDate = sv.juggleJamLastLoginDate,
     !.currentStreak = IF Truthy(sv.juggleJamCurrentStreak) THEN parseInt(sv.juggleJamCurrentStreak) ELSE 0,
     !.achievements = IF Truthy(sv.juggleJamAchievements) THEN JSONparse(sv.juggleJamAchievements) ELSE INITIAL_ACHIEVEMENTS,
     !.totalGamesPlayed = IF Truthy(sv.juggleJamTotalGamesPlayed) THEN parseInt(sv.juggleJamTotalGamesPlayed) ELSE 0]

\* the gameState that checkDailyLoginReward reads when loadSavedData calls
\* it: the one captured by the effect of the first render
mountClosure(sv) == Closure(InitialGameState)

loadSavedData(ctx, sv) ==
  checkDailyLoginReward([ctx EXCEPT !.gs = loadedState(ctx.gs, sv)], mountClosure(sv))

----------------------------------------------------------------------------
(* Game control *)

\* a start that keeps the score of the previous run
startGameKeepsScore(ctx) ==
  LET newTotalGamesPlayed == ctx.gs.totalGamesPlayed + 1
      c1 == saveTotalGamesPlayed(ctx, newTotalGamesPlayed)
      c2 == [c1 EXCEPT !.gs.ball = CentreBall(0),
                       !.gs.obstacles = <<>>,
                       !.gs.coins = <<>>,
                       !.gs.currentScreen = "playing",
                       !.gs.totalGamesPlayed = newTotalGamesPlayed,
                       !.gs.canWatchAdToContinue = TRUE]
  IN updateAchievementProgress(
       updateAchievementProgress(c2, "first_game", newTotalGamesPlayed),
       "play_10_games", newTotalGamesPlayed)

startGame(ctx) ==
  LET prev == ctx.gs
      newTotalGamesPlayed == prev.totalGamesPlayed + 1
      c1 == saveTotalGamesPlayed(ctx, newTotalGamesPlayed)
      c2 == [c1 EXCEPT !.gs.ball = CentreBall(0),
                       !.gs.obstacles = <<>>,
                       !.gs.coins = <<>>,
                       !.gs.score = 0,
                       !.gs.currentScreen = "playing",
                       !.gs.totalGamesPlayed = newTotalGamesPlayed,
                       !.gs.canWatchAdToContinue = TRUE]
  IN updateAchievementProgress(
       updateAchievementProgress(c2, "first_game", newTotalGamesPlayed),
       "play_10_games", newTotalGamesPlayed)

goTo(ctx, screen) == [ctx EXCEPT !.gs.currentScreen = screen]

returnToMenu(ctx) == goTo(ctx, "menu")
goToStore(ctx) == goTo(ctx, "store")
goToLeaderboard(ctx) == goTo(ctx, "leaderboard")
goToAchievements(ctx) == goTo(ctx, "achievements")

\* a continue that also clears the score
watchAdClearsScore(ctx) ==
  [ctx EXCEPT !.gs.ball = CentreBall(-Units(3)),
              !.gs.currentScreen = "playing",
              !.gs.score = 0,
              !.gs.canWatchAdToContinue = FALSE]

\* a continue that leaves the eligibility in place
watchAdKeepsEligibility(ctx) ==
  [ctx EXCEPT !.gs.ball = CentreBall(-Units(3)),
              !.gs.currentScreen = "playing"]

watchAdToContinue(ctx) ==
  [ctx EXCEPT !.gs.ball = CentreBall(-Units(3)),
              !.gs.currentScreen = "playing",
              !.gs.canWatchAdToContinue = FALSE]

----------------------------------------------------------------------------
(* Leaderboard *)

\* a search that never finds the player
findIndexNotFound(lb, playerName) == 0

findIndex(lb, playerName) ==
  IF \E i \in DOMAIN lb : lb[i].playerName = playerName
  THEN CHOOSE i \in DOMAIN lb :
         /\ lb[i].playerName = playerName
         /\ \A j \in DOMAIN lb : lb[j].playerName = playerName => i <= j
  ELSE 0

\* a submission that stores the figures of the last run as the bests
submitScoreLastRun(ctx, cl, finalScore, coinsEarned, currentTime) ==
  LET playerName == cl.playerName
      skinUsed == cl.selectedSkin
      existingPlayerIndex == findIndex(cl.leaderboard, playerName)
      newEntry ==
        [id |-> currentTime, playerName |-> playerName,
         bestTime |-> finalScore, bestCoins |-> coinsEarned,
         bestTimeTimestamp |-> currentTime, bestCoinsTimestamp |-> currentTime,
         bestTimeSkin |-> skinUsed, bestCoinsSkin |-> skinUsed]
      updatedLeaderboard ==
        IF existingPlayerIndex > 0
        THEN [cl.leaderboard EXCEPT ![existingPlayerIndex] = newEntry]
        ELSE Append(cl.leaderboard, newEntry)
  IN saveLeaderboard([ctx EXCEPT !.gs.leaderboard = updatedLeaderboard], updatedLeaderboard)

submitScore(ctx, cl, finalScore, coinsEarned, currentTime) ==
  LET playerName == cl.playerName
      skinUsed == cl.selectedSkin
      existingPlayerIndex == findIndex(cl.leaderboard, playerName)
      existingEntry == cl.leaderboard[existingPlayerIndex]
      updatedEntry ==
        [existingEntry EXCEPT
           !.bestTime = Max(existingEntry.bestTime, finalScore),
           !.bestCoins = Max(existingEntry.bestCoins, coinsEarned),
           !.bestTimeTimestamp = IF finalScore > existingEntry.bestTime THEN currentTime ELSE @,
           !.bestCoinsTimestamp = IF coinsEarned > existingEntry.bestCoins THEN currentTime ELSE @,
           !.bestTimeSkin = IF finalScore > existingEntry.bestTime THEN skinUsed ELSE @,
           !.bestCoinsSkin = IF coinsEarned > existingEntry.bestCoins THEN skinUsed ELSE @]
      newEntry ==
        [id |-> currentTime, playerName |-> playerName,
         bestTime |-> finalScore, bestCoins |-> coinsEarned,
         bestTimeTimestamp |-> currentTime, bestCoinsTimestamp |-> currentTime,
         bestTimeSkin |-> skinUsed, bestCoinsSkin |-> skinUsed]
      updatedLeaderboard ==
        IF existingPlayerIndex > 0
        THEN [cl.leaderboard EXCEPT ![existingPlayerIndex] = updatedEntry]
        ELSE Append(cl.leaderboard, newEntry)
  IN saveLeaderboard([ctx EXCEPT !.gs.leaderboard = updatedLeaderboard], updatedLeaderboard)

----------------------------------------------------------------------------
(* Store *)

Includes(seq, v) == \E i \in DOMAIN seq : seq[i] = v

purchaseSkinWithCoins(ctx, cl, skinId) ==
  LET price == coinPrice(skinId)
      newUnlockedSkins == Append(cl.unlockedSkins, skinId)
      c1 == [ctx EXCEPT !.gs.collectedCoins = ctx.gs.collectedCoins - price,
                        !.gs.unlockedSkins = newUnlockedSkins,
                        !.gs.selectedSkin = skinId]
  IN IF cl.collectedCoins >= price /\ ~Includes(cl.unlockedSkins, skinId)
     THEN saveSelectedSkin(saveUnlockedSkins(saveCoins(c1, cl.collectedCoins - price),
                                             newUnlockedSkins), skinId)
     ELSE ctx

selectSkin(ctx, cl, skinId) ==
  IF Includes(cl.unlockedSkins, skinId)
  THEN saveSelectedSkin([ctx EXCEPT !.gs.selectedSkin = skinId], skinId)
  ELSE ctx

purchaseSkinWithCash(ctx, cl, skinId) ==
  LET newUnlockedSkins == Append(cl.unlockedSkins, skinId)
      c1 == [ctx EXCEPT !.gs.unlockedSkins = newUnlockedSkins, !.gs.selectedSkin = skinId]
  IN saveSelectedSkin(saveUnlockedSkins(c1, newUnlockedSkins), skinId)

----------------------------------------------------------------------------
(* Game over finalization: the effect with dependencies                    *)
(* [currentScreen, score, highScore]                                       *)

finalizationDepsChanged(old, new) ==
  \/ old.currentScreen # new.currentScreen
  \/ old.score # new.score
  \/ old.highScore # new.highScore

\* the coin figure the effect submits
coinsThisRound(cl) == cl.collectedCoins

\* a finalization that stores the score of the run as the high score
\* whatever the high score is
gameOverEffectStoresScore(ctx, cl, currentTime) ==
  LET finalScore == FloorDiv(cl.score, 60)
      coins == coinsThisRound(cl)
      c1 == submitScore(ctx, cl, finalScore, coins, currentTime)
      c2 == saveHighScore([c1 EXCEPT !.gs.highScore = finalScore], finalScore)
      c3 == updateAchievementProgress(c2, "survive_60s", finalScore)
      c4 == updateAchievementProgress(c3, "survive_120s", finalScore)
      c5 == updateAchievementProgress(c4, "collect_50_coins", coins)
      c6 == updateAchievementProgress(c5, "collect_100_one_game", coins)
  IN updateAchievementProgress(c6, "collect_3_skins", Len(cl.unlockedSkins))

gameOverEffect(ctx, cl, currentTime) ==
  LET finalScore == FloorDiv(cl.score, 60)
      coins == coinsThisRound(cl)
      c1 == submitScore(ctx, cl, finalScore, coins, currentTime)
      c2 == IF finalScore > cl.highScore
            THEN saveHighScore([c1 EXCEPT !.gs.highScore = finalScore], finalScore)
            ELSE c1
      c3 == updateAchievementProgress(c2, "survive_60s", finalScore)
      c4 == updateAchievementProgress(c3, "survive_120s", finalScore)
      c5 == updateAchievementProgress(c4, "collect_50_coins", coins)
      c6 == updateAchievementProgress(c5, "collect_100_one_game", coins)
  IN updateAchievementProgress(c6, "collect_3_skins", Len(cl.unlockedSkins))

\* the effect runs after a render whose dependencies differ from the previous one
finalizationRuns(old, new) ==
  finalizationDepsChanged(old, new) /\ new.currentScreen = "gameOver"

----------------------------------------------------------------------------
(* Storage at startup: what earlier sessions left behind *)

AllClaimed == [i \in DOMAIN DAILY_REWARDS |-> [DAILY_REWARDS[i] EXCEPT !.claimed = TRUE]]
FirstClaimed == [DAILY_REWARDS EXCEPT ![1].claimed = TRUE]

StoredProfiles ==
  { EmptyStorage,
    [EmptyStorage EXCEPT !.juggleJamCoins = NumToString(100),
                         !.juggleJamLastLoginDate = toDateString(Today - 1),
                         !.juggleJamCurrentStreak = NumToString(7),
                         !.juggleJamDailyRewards = JSONstringify(AllClaimed)],
    [EmptyStorage EXCEPT !.juggleJamCoins = NumToString(40),
                         !.juggleJamLastLoginDate = toDateString(Today - 1),
                         !.juggleJamCurrentStreak = NumToString(3),
                         !.juggleJamDailyRewards = JSONstringify(FirstClaimed)],
    [EmptyStorage EXCEPT !.juggleJamLastLoginDate = toDateString(Today),
                         !.juggleJamCurrentStreak = NumToString(3),
                         !.juggleJamDailyRewards = JSONstringify(FirstClaimed)] }

----------------------------------------------------------------------------
(* Steps *)

Here == Ctx(gameState, storage, timers)

\* one render: the callbacks capture the new state, then the effects run
RenderPass(ctx, old, time) ==
  CHOOSE result \in {
    LET ran == finalizationRuns(old, new)
    IN [ctx |-> IF ran THEN gameOverEffect(ctx, new, time) ELSE ctx,
        closure |-> new,
        ran |-> ran]
    : new \in {Closure(ctx.gs)} } : TRUE

\* updates issued by a press are rendered before the next event
Press(ctx0, op) ==
  \E ctx \in {ctx0} : \E r \in {RenderPass(ctx, closure, now)} :
     /\ gameState' = r.ctx.gs
     /\ storage' = r.ctx.storage
     /\ timers' = r.ctx.timers
     /\ closure' = r.closure
     /\ pending' = IF r.ran THEN 1 ELSE 0
     /\ now' = IF r.ran THEN now + 1 ELSE now
     /\ lastOp' = op

\* the optional inputs a step consumes
Spend(n) ==
  /\ inputs + n <= MaxInputs
  /\ inputs' = inputs + n

\* a step taken before the reads of the startup load resolve
LoadCost == IF loadState = "reading" THEN 1 ELSE 0

\* updates issued by a timer or a promise and not rendered yet
Deferred(ctx0, op) ==
  \E ctx \in {ctx0} :
  /\ gameState' = ctx.gs
  /\ storage' = ctx.storage
  /\ timers' = ctx.timers
  /\ pending' = pending + 1
  /\ lastOp' = op
  /\ UNCHANGED <<closure, now>>

\* a timer or promise callback: React renders its updates right after it,
\* or puts the render off until after the next callback
Timed(ctx, op, used) ==
  \/ Spend(used) /\ Press(ctx, op)
  \/ Spend(used + 1) /\ Deferred(ctx, op)

Render ==
  /\ pending > 0
  /\ Press(Here, "render")
  /\ UNCHANGED <<engine, saved, loadState, inputs, games, runCoins, submitted, rejected, screenWidth>>

Sides == {"left", "right"}
ObstacleTypes == {"cone", "goalpost", "defender"}
CoinValues == {1, 5}
\* Math.random() * (SCREEN_HEIGHT - 200) + 100 for Math.random() = 1/2
SpawnYs == {Units(100) + (SCREEN_HEIGHT - Units(200)) \div 2}

ObstacleRolls == {<<>>} \cup {<<[side |-> sd, type |-> t, y |-> y]>> : sd \in Sides, t \in ObstacleTypes, y \in SpawnYs}
CoinRolls == {<<>>} \cup {<<[side |-> sd, value |-> v, y |-> y]>> : sd \in Sides, v \in CoinValues, y \in SpawnYs}

\* the setInterval callback; a setTimeout(0) callback is due before the
\* next tick of the 16 ms interval
Tick ==
  /\ updatePhysicsRuns(closure)
  /\ timers = <<>>
  /\ \E ob \in ObstacleRolls, cn \in CoinRolls :
       /\ Len(ob) + Len(cn) > 0 => gameState.score < MaxInputScore
       /\ \E ctx \in {updatePhysicsUpdater(Here, [obstacle |-> ob, coin |-> cn])} :
            /\ runCoins' = runCoins + (ctx.gs.collectedCoins - gameState.collectedCoins)
            /\ Timed(ctx, "tick", Len(ob) + Len(cn) + LoadCost)
  /\ UNCHANGED <<engine, saved, loadState, games, submitted, rejected, screenWidth>>

\* the coordinates a press is delivered at
TouchXs == {0, SCREEN_WIDTH \div 2, SCREEN_WIDTH}

\* a press on the game screen, which is rendered while playing and under
\* the game over screen
Tap ==
  /\ closure.currentScreen \in {"playing", "gameOver"}
  /\ gameState.score < MaxInputScore
  /\ Spend(1 + LoadCost)
  /\ \E touchX \in TouchXs :
       IF handleTouchRuns(closure)
       THEN Press([Here EXCEPT !.gs = handleTouchUpdater(gameState, touchX)], "tap")
       ELSE /\ lastOp' = "tap"
            /\ UNCHANGED <<gameState, storage, timers, closure, pending, now>>
  /\ UNCHANGED <<engine, saved, loadState, games, runCoins, submitted, rejected, screenWidth>>

\* a setTimeout(0) callback of updateAchievementProgress
TimerFire ==
  /\ timers # <<>>
  /\ Timed([Here EXCEPT !.gs.collectedCoins = Head(timers).newCoins, !.timers = Tail(timers)], "timer", LoadCost)
  /\ UNCHANGED <<engine, saved, loadState, games, runCoins, submitted, rejected, screenWidth>>

\* the continuation of loadSavedData after Promise.all
LoadSavedData ==
  /\ loadState = "reading"
  /\ loadState' = "done"
  /\ Timed(loadSavedData(Here, saved), "load", 0)
  /\ UNCHANGED <<engine, saved, games, runCoins, submitted, rejected, screenWidth>>

\* a game after the first of the session
GameCost == IF games THEN 1 ELSE 0

StartGame ==
  /\ closure.currentScreen = "menu"
  /\ games' = TRUE
  /\ Spend(GameCost + LoadCost)
  /\ Press(startGame(Here), "start")
  /\ runCoins' = 0
  /\ UNCHANGED <<engine, saved, loadState, submitted, rejected, screenWidth>>

RestartGame ==
  /\ closure.currentScreen = "gameOver"
  /\ games' = TRUE
  /\ Spend(GameCost + LoadCost)
  /\ Press(startGame(Here), "restart")
  /\ runCoins' = 0
  /\ UNCHANGED <<engine, saved, loadState, submitted, rejected, screenWidth>>

WatchAdToContinue ==
  /\ closure.currentScreen = "gameOver"
  /\ closure.canWatchAdToContinue
  /\ Spend(1 + LoadCost)
  /\ Press(watchAdToContinue(Here), "watchAd")
  /\ UNCHANGED <<engine, saved, loadState, games, runCoins, submitted, rejected, screenWidth>>

ReturnToMenu ==
  /\ closure.currentScreen \in {"gameOver", "store", "leaderboard", "achievements"}
  /\ Spend(LoadCost)
  /\ Press(returnToMenu(Here), "menu")
  /\ UNCHANGED <<engine, saved, loadState, games, runCoins, submitted, rejected, screenWidth>>

GoToStore ==
  /\ closure.currentScreen = "menu"
  /\ Spend(LoadCost)
  /\ Press(goToStore(Here), "store")
  /\ UNCHANGED <<engine, saved, loadState, games, runCoins, submitted, rejected, screenWidth>>

GoToLeaderboard ==
  /\ closure.currentScreen = "menu"
  /\ Spend(LoadCost)
  /\ Press(goToLeaderboard(Here), "leaderboard")
  /\ UNCHANGED <<engine, saved, loadState, games, runCoins, submitted, rejected, screenWidth>>

GoToAchievements ==
  /\ closure.currentScreen = "menu"
  /\ Spend(LoadCost)
  /\ Press(goToAchievements(Here), "achievements")
  /\ UNCHANGED <<engine, saved, loadState, games, runCoins, submitted, rejected, screenWidth>>

\* the daily reward buttons of the menu, enabled when canClaim
ClaimDailyReward ==
  /\ closure.currentScreen = "menu"
  /\ closure.currentStreak > 0
  /\ Spend(1 + LoadCost)
  /\ \E day \in DOMAIN closure.dailyRewards :
       /\ day <= closure.currentStreak
       /\ ~closure.dailyRewards[day].claimed
       /\ Press(claimDailyReward(Here, closure, day), "claim")
  /\ UNCHANGED <<engine, saved, loadState, games, runCoins, submitted, rejected, screenWidth>>

\* the buttons of a store row
PurchaseSkinWithCoins ==
  /\ closure.currentScreen = "store"
  /\ Spend(1 + LoadCost)
  /\ \E i \in DOMAIN SkinIds :
       /\ ~Includes(closure.unlockedSkins, SkinIds[i])
       /\ coinPrice(SkinIds[i]) > 0
       /\ closure.collectedCoins >= coinPrice(SkinIds[i])
       /\ Press(purchaseSkinWithCoins(Here, closure, SkinIds[i]), "buyCoins")
  /\ UNCHANGED <<engine, saved, loadState, games, runCoins, submitted, rejected, screenWidth>>

\* a store row that keeps its cash button once the skin is unlocked
PurchaseSkinWithCashAgain ==
  /\ closure.currentScreen = "store"
  /\ Spend(1 + LoadCost)
  /\ \E i \in DOMAIN SkinIds :
       /\ cashPrice(SkinIds[i]) > 0
       /\ Press(purchaseSkinWithCash(Here, closure, SkinIds[i]), "buyCash")
  /\ UNCHANGED <<engine, saved, loadState, games, runCoins, submitted, rejected, screenWidth>>

PurchaseSkinWithCash ==
  /\ closure.currentScreen = "store"
  /\ Spend(1 + LoadCost)
  /\ \E i \in DOMAIN SkinIds :
       /\ ~Includes(closure.unlockedSkins, SkinIds[i])
       /\ cashPrice(SkinIds[i]) > 0
       /\ Press(purchaseSkinWithCash(Here, closure, SkinIds[i]), "buyCash")
  /\ UNCHANGED <<engine, saved, loadState, games, runCoins, submitted, rejected, screenWidth>>

SelectSkin ==
  /\ closure.currentScreen = "store"
  /\ Spend(1 + LoadCost)
  /\ \E i \in DOMAIN SkinIds :
       /\ Includes(closure.unlockedSkins, SkinIds[i])
       /\ closure.selectedSkin # SkinIds[i]
       /\ Press(selectSkin(Here, closure, SkinIds[i]), "select")
  /\ UNCHANGED <<engine, saved, loadState, games, runCoins, submitted, rejected, screenWidth>>

Init ==
  /\ engine = "full"
  /\ gameState = InitialGameState
  /\ closure = Closure(InitialGameState)
  /\ pending = 0
  /\ timers = <<>>
  /\ storage \in StoredProfiles
  /\ saved = storage
  /\ loadState = "reading"
  /\ now = 1
  /\ inputs = 0
  /\ games = FALSE
  /\ lastOp = "mount"
  /\ runCoins = 0
  /\ submitted = {}
  /\ rejected = {}
  /\ screenWidth = SCREEN_WIDTH

Next ==
  \/ Tick
  \/ Tap
  \/ Render
  \/ TimerFire
  \/ LoadSavedData
  \/ StartGame
  \/ RestartGame
  \/ WatchAdToContinue
  \/ ReturnToMenu
  \/ GoToStore
  \/ GoToLeaderboard
  \/ GoToAchievements
  \/ ClaimDailyReward
  \/ PurchaseSkinWithCoins
  \/ PurchaseSkinWithCash
  \/ SelectSkin

Spec == Init /\ [][Next]_vars

----------------------------------------------------------------------------
(* The earlier engine variants.  The flap engine (SimpleGameEngine without *)
(* screens) and the radial engine (GameEngine) keep                        *)
(* {ball, obstacles, score, isPlaying, gameOver}.                          *)

\* GAME_CONFIG and the friction factors (in hundredths) of updatePhysics
FlapConfig ==
  [gravity |-> 300, obstacleSpeed |-> Units(2), frictionX |-> 95, frictionY |-> 99]
RadialConfig ==
  [gravity |-> 800, obstacleSpeed |-> Units(3), frictionX |-> 98, frictionY |-> 100]

EngineInitialState ==
  [ball |-> CentreBall(0), obstacles |-> <<>>, score |-> 0,
   isPlaying |-> TRUE, gameOver |-> FALSE]

\* what the callbacks of a render read: useCallback's dependencies
EngineClosure(gs) == [isPlaying |-> gs.isPlaying, gameOver |-> gs.gameOver]

engineObstacle(side, type, y, speed) ==
  [x |-> IF side = "left" THEN -Units(50) ELSE SCREEN_WIDTH + Units(50),
   y |-> y,
   vx |-> IF side = "left" THEN speed ELSE -speed,
   vy |-> 0,
   type |-> type,
   width |-> obstacleWidth(type),
   height |-> obstacleHeight(type)]

\* gravity, integration, friction and the two walls
EngineBallAfter(ball, cfg) ==
  LET vy1 == ball.vy + cfg.gravity
      x1 == ball.x + ball.vx
      y1 == ball.y + vy1
      vx2 == MulFrac(ball.vx, cfg.frictionX, 100)
      vy2 == MulFrac(vy1, cfg.frictionY, 100)
      left == x1 <= ballRadius
      x2 == IF left THEN ballRadius ELSE x1
      vx3 == IF left THEN MulFrac(Abs(vx2), 7, 10) ELSE vx2
      right == x2 >= SCREEN_WIDTH - ballRadius
      x3 == IF right THEN SCREEN_WIDTH - ballRadius ELSE x2
      vx4 == IF right THEN -MulFrac(Abs(vx3), 7, 10) ELSE vx3
  IN [ball EXCEPT !.x = x3, !.y = y1, !.vx = vx4, !.vy = vy2]

\* the updater of updatePhysics; rnd holds the outcome of Math.random()
engineUpdatePhysics(prevState, rnd, cfg) ==
  CHOOSE result \in {
    LET ground == GroundHit(ball)
        moved == AdvanceAndCull(prevState.obstacles)
        obstacles == IF rnd # <<>>
                     THEN Append(moved, engineObstacle(rnd[1].side, rnd[1].type, rnd[1].y,
                                                       cfg.obstacleSpeed))
                     ELSE moved
        hit == \E i \in DOMAIN obstacles : ObstacleHits(ball, obstacles[i])
    IN [prevState EXCEPT !.ball = ball,
                         !.obstacles = obstacles,
                         !.gameOver = IF ground \/ hit THEN TRUE ELSE @,
                         !.isPlaying = IF ground \/ hit THEN FALSE ELSE @,
                         !.score = @ + 1]
    : ball \in {EngineBallAfter(prevState.ball, cfg)} } : TRUE

flapUpdatePhysics(prevState, rnd) == engineUpdatePhysics(prevState, rnd, FlapConfig)
radialUpdatePhysics(prevState, rnd) == engineUpdatePhysics(prevState, rnd, RadialConfig)

\* the guard of updatePhysics in both variants
engineUpdatePhysicsRuns(cl) == cl.isPlaying /\ ~cl.gameOver

\* the guard of handleTouch in the flap engine; the radial engine has none
flapHandleTouchRuns(cl) == cl.isPlaying /\ ~cl.gameOver

flapHandleTouch(prevState, touchX) == handleTouchUpdater(prevState, touchX)

\* Math.floor(Math.sqrt(n)), searched between lo and hi
RECURSIVE SqrtBetween(_, _, _)
SqrtBetween(n, lo, hi) ==
  IF lo >= hi THEN lo
  ELSE LET mid == (lo + hi + 1) \div 2
       IN IF mid * mid <= n THEN SqrtBetween(n, mid, hi) ELSE SqrtBetween(n, lo, mid - 1)

\* Math.sqrt(dx^2 + dy^2) in thousandths, to a tenth of a unit
Distance(dx, dy) ==
  LET cx == dx \div 100
      cy == dy \div 100
  IN SqrtBetween(cx * cx + cy * cy, 0, 46340) * 100

\* the updater of the radial handleTouch: velocity * 0.3 + direction * force,
\* force = min(distance / 100, 1) * 15
radialHandleTouch(prevState, touchX, touchY) ==
  LET deltaX == touchX - prevState.ball.x
      deltaY == touchY - prevState.ball.y
      distance == Distance(deltaX, deltaY)
      push(delta) ==
        IF distance = 0 THEN 0
        ELSE IF distance < Units(100) THEN MulFrac(delta, 15, 100)
        ELSE MulFrac(15000 * (delta \div 10), 1, distance \div 10)
      newVelX == MulFrac(prevState.ball.vx, 3, 10) + push(deltaX)
      newVelY == MulFrac(prevState.ball.vy, 3, 10) + push(deltaY)
  IN [prevState EXCEPT !.ball.vx = newVelX, !.ball.vy = newVelY]

\* restartGame of the flap engine
engineRestartGame == EngineInitialState

EngineFrame == <<engine, timers, storage, saved, loadState, now, games, runCoins, submitted, rejected, screenWidth>>

EngineRendered(gs, op) ==
  /\ gameState' = gs
  /\ closure' = EngineClosure(gs)
  /\ pending' = 0
  /\ lastOp' = op

EngineDeferred(gs, op) ==
  /\ gameState' = gs
  /\ pending' = pending + 1
  /\ lastOp' = op
  /\ UNCHANGED closure

EngineTimed(gs, op, used) ==
  \/ Spend(used) /\ EngineRendered(gs, op)
  \/ Spend(used + 1) /\ EngineDeferred(gs, op)

\* the setInterval callback
EngineTick ==
  /\ engineUpdatePhysicsRuns(closure)
  /\ \E ob \in ObstacleRolls :
       /\ Len(ob) > 0 => gameState.score < MaxInputScore
       /\ \E gs \in {IF engine = "flap" THEN flapUpdatePhysics(gameState, ob)
                                        ELSE radialUpdatePhysics(gameState, ob)} :
            EngineTimed(gs, "tick", Len(ob))
  /\ UNCHANGED EngineFrame

TouchYs == {0, SCREEN_HEIGHT}

\* a press on the flap engine's screen, a pan event on the radial engine's
EngineTap ==
  /\ Spend(1)
  /\ \E touchX \in TouchXs, touchY \in TouchYs :
       IF engine = "radial"
       THEN EngineRendered(radialHandleTouch(gameState, touchX, touchY), "tap")
       ELSE IF flapHandleTouchRuns(closure)
            THEN EngineRendered(flapHandleTouch(gameState, touchX), "tap")
            ELSE /\ lastOp' = "tap"
                 /\ UNCHANGED <<gameState, closure, pending>>
  /\ UNCHANGED EngineFrame

\* the Restart Game button of the flap engine's game over overlay
EngineRestart ==
  /\ engine = "flap"
  /\ closure.gameOver
  /\ EngineRendered(engineRestartGame, "restart")
  /\ UNCHANGED inputs
  /\ UNCHANGED EngineFrame

EngineRender ==
  /\ pending > 0
  /\ EngineRendered(gameState, "render")
  /\ UNCHANGED inputs
  /\ UNCHANGED EngineFrame

InitEngines ==
  /\ engine \in {"flap", "radial"}
  /\ gameState = EngineInitialState
  /\ closure = EngineClosure(EngineInitialState)
  /\ pending = 0
  /\ timers = <<>>
  /\ storage = EmptyStorage
  /\ saved = EmptyStorage
  /\ loadState = "done"
  /\ now = 1
  /\ inputs = 0
  /\ games = FALSE
  /\ lastOp = "mount"
  /\ runCoins = 0
  /\ submitted = {}
  /\ rejected = {}
  /\ screenWidth = SCREEN_WIDTH

NextEngines ==
  \/ EngineTick
  \/ EngineTap
  \/ EngineRestart
  \/ EngineRender

SpecEngines == InitEngines /\ [][NextEngines]_vars

----------------------------------------------------------------------------
(* The leaderboard alone: submitScore applied to drawn results by the      *)
(* players of successive sessions, each with the skin it selected          *)

PlayerNames == {"Player", "Ann"}
FinalScores == 0 .. 1
CoinFigures == {0, 5}

LedgerFrame == <<engine, pending, timers, saved, loadState, inputs, games, runCoins, rejected, screenWidth>>

LedgerRendered(ctx, op) ==
  /\ gameState' = ctx.gs
  /\ storage' = ctx.storage
  /\ closure' = Closure(ctx.gs)
  /\ lastOp' = op

\* submitScore(finalScore, coinsEarned) at Date.now() = now
LedgerSubmit ==
  /\ Cardinality(submitted) < MaxSubmissions
  /\ \E finalScore \in FinalScores, coinsEarned \in CoinFigures :
       /\ LedgerRendered(submitScore(Here, closure, finalScore, coinsEarned, now), "submit")
       /\ submitted' = submitted \cup
            {[playerName |-> closure.playerName, finalScore |-> finalScore,
              coinsEarned |-> coinsEarned, time |-> now, skin |-> closure.selectedSkin]}
  /\ now' = now + 1
  /\ UNCHANGED LedgerFrame

\* the player unlocks or selects another skin
LedgerSkin ==
  /\ \E i \in DOMAIN SkinIds :
       /\ closure.selectedSkin # SkinIds[i]
       /\ LedgerRendered(IF Includes(closure.unlockedSkins, SkinIds[i])
                         THEN selectSkin(Here, closure, SkinIds[i])
                         ELSE purchaseSkinWithCash(Here, closure, SkinIds[i]), "skin")
  /\ UNCHANGED <<now, submitted, rejected, screenWidth>>
  /\ UNCHANGED LedgerFrame

\* a later session: the state loaded from the storage, which holds another
\* player name
LedgerRelaunch ==
  /\ \E playerName \in PlayerNames \ {closure.playerName} :
       \E sv \in {[storage EXCEPT !.juggleJamPlayerName = <<playerName>>]} :
          LedgerRendered(Ctx(loadedState(InitialGameState, sv), sv, <<>>), "load")
  /\ UNCHANGED <<now, submitted, rejected, screenWidth>>
  /\ UNCHANGED LedgerFrame

InitLedger ==
  /\ engine = "full"
  /\ gameState = InitialGameState
  /\ closure = Closure(InitialGameState)
  /\ pending = 0
  /\ timers = <<>>
  /\ storage = EmptyStorage
  /\ saved = storage
  /\ loadState = "done"
  /\ now = 1
  /\ inputs = 0
  /\ games = FALSE
  /\ lastOp = "mount"
  /\ runCoins = 0
  /\ submitted = {}
  /\ rejected = {}
  /\ screenWidth = SCREEN_WIDTH

NextLedger ==
  \/ LedgerSubmit
  \/ LedgerSkin
  \/ LedgerRelaunch

SpecLedger == InitLedger /\ [][NextLedger]_vars

----------------------------------------------------------------------------
(* The tap handler alone: handleTouch applied to a ball in flight with any *)
(* velocity, at coordinates on either side of the ball, on it and off the  *)
(* screen                                                                  *)

BallXs == {ballRadius, SCREEN_WIDTH \div 2, SCREEN_WIDTH - ballRadius}
BallYs == {Units(400), SCREEN_HEIGHT \div 2}
PriorVelXs == {-Units(4), -Units(3), -Units(1), 0, 500, Units(2), Units(3), Units(4)}
PriorVelYs == {-Units(8), -Units(5), 0, Units(3), Units(12)}
TapXs == {-Units(10), SCREEN_WIDTH + Units(10)} \cup BallXs
TapYs == {-Units(10), SCREEN_HEIGHT \div 2, SCREEN_HEIGHT + Units(10)}

TouchFrame == <<engine, pending, timers, storage, saved, loadState, now,
                games, runCoins, submitted, rejected, screenWidth>>

\* onPress of the game area: handleTouch(locationX, locationY)
TouchTap ==
  /\ handleTouchRuns(closure)
  /\ Spend(1)
  /\ \E touchX \in TapXs, touchY \in TapYs :
       \E gs \in {handleTouchUpdater(gameState, touchX)} :
          /\ gameState' = gs
          /\ closure' = Closure(gs)
  /\ lastOp' = "tap"
  /\ UNCHANGED TouchFrame

\* a tick of the run: the ball moves on between two taps
TouchTick ==
  /\ updatePhysicsRuns(closure)
  /\ gameState.score < MaxTouchTicks
  /\ \E ctx \in {updatePhysicsUpdater(Here, [obstacle |-> <<>>, coin |-> <<>>])} :
       /\ ctx.gs.currentScreen = "playing"
       /\ gameState' = ctx.gs
       /\ closure' = Closure(ctx.gs)
  /\ lastOp' = "tick"
  /\ UNCHANGED inputs
  /\ UNCHANGED TouchFrame

InitTouch ==
  /\ engine = "full"
  /\ \E x \in BallXs, y \in BallYs, vx \in PriorVelXs, vy \in PriorVelYs :
       gameState = [InitialGameState EXCEPT
                      !.currentScreen = "playing",
                      !.ball = [CentreBall(vy) EXCEPT !.x = x, !.y = y, !.vx = vx]]
  /\ closure = Closure(gameState)
  /\ pending = 0
  /\ timers = <<>>
  /\ storage = EmptyStorage
  /\ saved = storage
  /\ loadState = "done"
  /\ now = 1
  /\ inputs = 0
  /\ games = TRUE
  /\ lastOp = "start"
  /\ runCoins = 0
  /\ submitted = {}
  /\ rejected = {}
  /\ screenWidth = SCREEN_WIDTH

NextTouch ==
  \/ TouchTap
  \/ TouchTick

SpecTouch == InitTouch /\ [][NextTouch]_vars

----------------------------------------------------------------------------
(* The world alone: updatePhysics applied to runs whose obstacles and      *)
(* coins have travelled for some ticks, up to the far border of the window *)

\* ticks travelled since the spawn at the base speed: none, and the last
\* two that leave an obstacle (140 ticks to the border) or a coin (127
\* ticks) inside the window
ObstacleAges == {0, 138, 139}
CoinAges == {0, 125, 126}

Travelled(e, age) == [e EXCEPT !.x = e.x + age * e.vx, !.y = e.y + age * e.vy]

WorldObstacles ==
  {Travelled(newObstacle(side, "cone", y, MultiplierDen), age) :
     side \in Sides, y \in SpawnYs, age \in ObstacleAges}
WorldCoins ==
  {Travelled(newCoin(side, 1, y, MultiplierDen), age) :
     side \in Sides, y \in SpawnYs, age \in CoinAges}

WorldFrame == <<engine, saved, loadState, games, runCoins, submitted, rejected, screenWidth>>

\* the setInterval callback and the render after it
WorldTick ==
  /\ updatePhysicsRuns(closure)
  /\ gameState.score < MaxWorldTicks
  /\ \E ob \in ObstacleRolls, cn \in CoinRolls :
       /\ Spend(Len(ob) + Len(cn))
       /\ Press(updatePhysicsUpdater(Here, [obstacle |-> ob, coin |-> cn]), "tick")
  /\ UNCHANGED WorldFrame

InitWorld ==
  /\ engine = "full"
  /\ \E a, b \in WorldObstacles, c \in WorldCoins :
       \E obstacles \in {<<>>, <<a>>, <<a, b>>}, coins \in {<<>>, <<c>>} :
          gameState = [InitialGameState EXCEPT
                         !.currentScreen = "playing",
                         !.ball = CentreBall(-Units(5)),
                         !.obstacles = obstacles,
                         !.coins = coins]
  /\ closure = Closure(gameState)
  /\ pending = 0
  /\ timers = <<>>
  /\ storage = EmptyStorage
  /\ saved = storage
  /\ loadState = "done"
  /\ now = 1
  /\ inputs = 0
  /\ games = TRUE
  /\ lastOp = "start"
  /\ runCoins = 0
  /\ submitted = {}
  /\ rejected = {}
  /\ screenWidth = SCREEN_WIDTH

NextWorld == WorldTick

SpecWorld == InitWorld /\ [][NextWorld]_vars

----------------------------------------------------------------------------
(* The difficulty alone: updatePhysics applied to runs that have lasted    *)
(* for any number of ticks, around the two caps (6750 and 10800 ticks)     *)

DifficultyScores == {0, 1, 59, 60, 2700, 5400, 6749, 6750, 6751, 7200, 9000,
                     10799, 10800, 10801, 20000}

\* the setInterval callback and the render after it, with the spawns drawn
DifficultyTick ==
  /\ updatePhysicsRuns(closure)
  /\ Spend(1)
  /\ \E ob \in ObstacleRolls, cn \in CoinRolls :
       Press(updatePhysicsUpdater(Here, [obstacle |-> ob, coin |-> cn]), "tick")
  /\ UNCHANGED WorldFrame

InitDifficulty ==
  /\ engine = "full"
  /\ \E score \in DifficultyScores :
       gameState = [InitialGameState EXCEPT
                      !.currentScreen = "playing",
                      !.ball = CentreBall(-Units(5)),
                      !.score = score]
  /\ closure = Closure(gameState)
  /\ pending = 0
  /\ timers = <<>>
  /\ storage = EmptyStorage
  /\ saved = storage
  /\ loadState = "done"
  /\ now = 1
  /\ inputs = 0
  /\ games = TRUE
  /\ lastOp = "start"
  /\ runCoins = 0
  /\ submitted = {}
  /\ rejected = {}
  /\ screenWidth = SCREEN_WIDTH

NextDifficulty == DifficultyTick

SpecDifficulty == InitDifficulty /\ [][NextDifficulty]_vars

----------------------------------------------------------------------------
(* The startup load alone: loadSavedData on storage whose items may be     *)
(* unreadable (a read rejects), not a number, or not JSON; then a start    *)
(* and the first ticks of the game.  engine = "unmounted" is the component *)
(* tree after an error thrown while rendering (there is no error boundary) *)

MaxLoadTicks == 3

\* items of storage that parseInt reads, and items that JSON.parse reads
NumberItems == {"juggleJamHighScore", "juggleJamCoins", "juggleJamCurrentStreak", "juggleJamTotalGamesPlayed"}
JSONItems == {"juggleJamUnlockedSkins", "juggleJamLeaderboard", "juggleJamDailyRewards", "juggleJamAchievements"}

DamagedProfiles ==
  { [EmptyStorage EXCEPT !.juggleJamHighScore = <<Letter>>],
    [EmptyStorage EXCEPT !.juggleJamLeaderboard = Malformed],
    [EmptyStorage EXCEPT !.juggleJamCoins = NumToString(40),
                         !.juggleJamDailyRewards = Malformed],
    [EmptyStorage EXCEPT !.juggleJamCoins = NumToString(40),
                         !.juggleJamAchievements = Malformed,
                         !.juggleJamLastLoginDate = toDateString(Today - 1),
                         !.juggleJamCurrentStreak = NumToString(3)] }

\* an item of sv for which parseInt gives NaN
NotANumber(sv) == \E k \in NumberItems : Truthy(sv[k]) /\ parseInt(sv[k]) = NaN

\* the updater of loadSavedData throws: JSON.parse runs inside the updater,
\* which React calls while rendering, after loadSavedData has returned
loadedStateThrows(sv) == \E k \in JSONItems : Truthy(sv[k]) /\ SyntaxError(sv[k])

LoadFrame == <<saved, runCoins, submitted, rejected, screenWidth>>

\* a getItem of the Promise.all rejects: the catch logs the error
LoadRejects ==
  /\ engine = "full"
  /\ loadState = "reading"
  /\ loadState' = "failed"
  /\ lastOp' = "load"
  /\ UNCHANGED <<engine, gameState, closure, pending, timers, storage, now, inputs, games>>
  /\ UNCHANGED LoadFrame

\* the reads resolve: setGameState queues the updater, checkDailyLoginReward
\* runs, and then the render applies the updater
LoadResolves ==
  /\ engine = "full"
  /\ loadState = "reading"
  /\ loadState' = "done"
  /\ IF loadedStateThrows(saved)
     THEN /\ engine' = "unmounted"
          /\ storage' = checkDailyLoginReward(Here, mountClosure(saved)).storage
          /\ lastOp' = "load"
          /\ UNCHANGED <<gameState, closure, pending, timers, now>>
     ELSE /\ Press(loadSavedData(Here, saved), "load")
          /\ UNCHANGED engine
  /\ UNCHANGED <<inputs, games>>
  /\ UNCHANGED LoadFrame

LoadStartGame ==
  /\ engine = "full"
  /\ closure.currentScreen = "menu"
  /\ games' = TRUE
  /\ Press(startGame(Here), "start")
  /\ UNCHANGED <<engine, loadState, inputs>>
  /\ UNCHANGED LoadFrame

LoadTimerFire ==
  /\ engine = "full"
  /\ timers # <<>>
  /\ Press([Here EXCEPT !.gs.collectedCoins = Head(timers).newCoins, !.timers = Tail(timers)], "timer")
  /\ UNCHANGED <<engine, loadState, inputs, games>>
  /\ UNCHANGED LoadFrame

LoadTick ==
  /\ engine = "full"
  /\ updatePhysicsRuns(closure)
  /\ timers = <<>>
  /\ gameState.score < MaxLoadTicks
  /\ Press(updatePhysicsUpdater(Here, [obstacle |-> <<>>, coin |-> <<>>]), "tick")
  /\ UNCHANGED <<engine, loadState, inputs, games>>
  /\ UNCHANGED LoadFrame

InitLoad ==
  /\ engine = "full"
  /\ gameState = InitialGameState
  /\ closure = Closure(InitialGameState)
  /\ pending = 0
  /\ timers = <<>>
  /\ storage \in StoredProfiles \cup DamagedProfiles
  /\ saved = storage
  /\ loadState = "reading"
  /\ now = 1
  /\ inputs = 0
  /\ games = FALSE
  /\ lastOp = "mount"
  /\ runCoins = 0
  /\ submitted = {}
  /\ rejected = {}
  /\ screenWidth = SCREEN_WIDTH

NextLoad ==
  \/ LoadRejects
  \/ LoadResolves
  \/ LoadStartGame
  \/ LoadTimerFire
  \/ LoadTick

SpecLoad == InitLoad /\ [][NextLoad]_vars

----------------------------------------------------------------------------
(* Storage that refuses writes: the handlers of a session (startup load,   *)
(* daily reward claim, start, achievement timer, ticks) on a device whose  *)
(* AsyncStorage.setItem rejects for some keys while a handler runs         *)

MaxWriteTicks == 2

StorageKeys == DOMAIN EmptyStorage

\* the keys whose setItem rejects during one handler
RejectedKeys ==
  { {}, {"juggleJamCoins"}, {"juggleJamTotalGamesPlayed", "juggleJamAchievements"},
    StorageKeys }

\* a handler's saveData calls when setItem rejects for the keys in failing:
\* the catch logs the error, the stored item stays as it was, and the
\* updaters and timers of the handler are as without the rejection
saveDataRejectedRetried(before, ctx, failing) == ctx
saveDataRejected(before, ctx, failing) ==
  [ctx EXCEPT !.storage = [k \in DOMAIN before |->
                             IF k \in failing THEN before[k] ELSE ctx.storage[k]]]

\* the writes that a handler issued and storage refused
rejectedWrites(before, ctx, failing) == {k \in failing : ctx.storage[k] # before[k]}

Handled(ctx0, op) ==
  \E failing \in RejectedKeys : \E ctx \in {ctx0} :
     /\ rejected' = rejectedWrites(storage, ctx, failing)
     /\ Press(saveDataRejected(storage, ctx, failing), op)

WritesFrame == <<engine, saved, inputs, runCoins, submitted, screenWidth>>

WritesLoad ==
  /\ loadState = "reading"
  /\ loadState' = "done"
  /\ Handled(loadSavedData(Here, saved), "load")
  /\ UNCHANGED games
  /\ UNCHANGED WritesFrame

WritesClaimDailyReward ==
  /\ loadState = "done"
  /\ closure.currentScreen = "menu"
  /\ closure.currentStreak > 0
  /\ \E day \in DOMAIN closure.dailyRewards :
       /\ day <= closure.currentStreak
       /\ ~closure.dailyRewards[day].claimed
       /\ Handled(claimDailyReward(Here, closure, day), "claim")
  /\ UNCHANGED <<loadState, games>>
  /\ UNCHANGED WritesFrame

WritesStartGame ==
  /\ loadState = "done"
  /\ closure.currentScreen = "menu"
  /\ games' = TRUE
  /\ Handled(startGame(Here), "start")
  /\ UNCHANGED loadState
  /\ UNCHANGED WritesFrame

WritesTimerFire ==
  /\ timers # <<>>
  /\ Handled([Here EXCEPT !.gs.collectedCoins = Head(timers).newCoins, !.timers = Tail(timers)], "timer")
  /\ UNCHANGED <<loadState, games>>
  /\ UNCHANGED WritesFrame

WritesTick ==
  /\ updatePhysicsRuns(closure)
  /\ timers = <<>>
  /\ gameState.score < MaxWriteTicks
  /\ Handled(updatePhysicsUpdater(Here, [obstacle |-> <<>>, coin |-> <<>>]), "tick")
  /\ UNCHANGED <<loadState, games>>
  /\ UNCHANGED WritesFrame

\* what the handlers that can run in this state do when no write fails
WritesHandlers ==
  (IF loadState = "reading" THEN {loadSavedData(Here, saved)} ELSE {})
  \cup (IF loadState = "done" /\ closure.currentScreen = "menu"
        THEN {startGame(Here)}
             \cup {claimDailyReward(Here, closure, day) : day \in DOMAIN closure.dailyRewards}
        ELSE {})
  \cup (IF timers # <<>>
        THEN {[Here EXCEPT !.gs.collectedCoins = Head(timers).newCoins, !.timers = Tail(timers)]}
        ELSE {})
  \cup (IF updatePhysicsRuns(closure) /\ timers = <<>>
        THEN {updatePhysicsUpdater(Here, [obstacle |-> <<>>, coin |-> <<>>])}
        ELSE {})

InitWrites ==
  /\ engine = "full"
  /\ gameState = InitialGameState
  /\ closure = Closure(InitialGameState)
  /\ pending = 0
  /\ timers = <<>>
  /\ storage \in StoredProfiles
  /\ saved = storage
  /\ loadState = "reading"
  /\ now = 1
  /\ inputs = 0
  /\ games = FALSE
  /\ lastOp = "mount"
  /\ runCoins = 0
  /\ submitted = {}
  /\ rejected = {}
  /\ screenWidth = SCREEN_WIDTH

NextWrites ==
  \/ WritesLoad
  \/ WritesClaimDailyReward
  \/ WritesStartGame
  \/ WritesTimerFire
  \/ WritesTick

SpecWrites == InitWrites /\ [][NextWrites]_vars

----------------------------------------------------------------------------
(* The end of a run: games that have lasted one or two minutes of ticks,   *)
(* with the ball one tick above the ground, started after or before the    *)
(* startup load has resolved, by a player with or without earlier bests    *)

\* score of the run before its last tick
LastTicks == {59, 119}

\* the best of the earlier sessions, 0 for none
EarlierBests == {0, 1, 3}

EarlierEntry(best) ==
  [id |-> 0, playerName |-> "Player",
   bestTime |-> best, bestCoins |-> 0,
   bestTimeTimestamp |-> 0, bestCoinsTimestamp |-> 0,
   bestTimeSkin |-> "classic", bestCoinsSkin |-> "classic"]

EarlierProfile(best) ==
  IF best = 0 THEN EmptyStorage
  ELSE [EmptyStorage EXCEPT !.juggleJamHighScore = NumToString(best),
                            !.juggleJamCoins = NumToString(100),
                            !.juggleJamLeaderboard = JSONstringify(<<EarlierEntry(best)>>),
                            !.juggleJamTotalGamesPlayed = NumToString(1),
                            !.juggleJamLastLoginDate = toDateString(Today - 1),
                            !.juggleJamCurrentStreak = NumToString(1)]

\* the run in flight: the handlers up to the start, then ticks ticks
RunInFlight(sv, loaded, ticks) ==
  LET mounted == Ctx(InitialGameState, sv, <<>>)
      base == IF loaded THEN loadSavedData(mounted, sv) ELSE mounted
      started == startGame(base)
      coins == IF started.timers = <<>> THEN started.gs.collectedCoins
               ELSE started.timers[Len(started.timers)].newCoins
  IN [started EXCEPT
        !.timers = <<>>,
        !.gs.collectedCoins = coins,
        !.gs.score = ticks,
        !.gs.ball = [CentreBall(0) EXCEPT !.y = SCREEN_HEIGHT - ballRadius - 100]]

FinalFrame == <<engine, saved, loadState, games, runCoins, submitted, rejected, screenWidth>>

FinalTick ==
  /\ updatePhysicsRuns(closure)
  /\ timers = <<>>
  /\ Timed(updatePhysicsUpdater(Here, [obstacle |-> <<>>, coin |-> <<>>]), "tick", 0)
  /\ UNCHANGED FinalFrame

FinalTimerFire ==
  /\ timers # <<>>
  /\ Timed([Here EXCEPT !.gs.collectedCoins = Head(timers).newCoins, !.timers = Tail(timers)], "timer", 0)
  /\ UNCHANGED FinalFrame

InitFinal ==
  /\ engine = "full"
  /\ \E best \in EarlierBests, loaded \in BOOLEAN, ticks \in LastTicks :
       /\ saved = EarlierProfile(best)
       /\ loadState = IF loaded THEN "done" ELSE "reading"
       /\ \E ctx \in {RunInFlight(saved, loaded, ticks)} :
            /\ gameState = ctx.gs
            /\ storage = ctx.storage
            /\ timers = ctx.timers
  /\ closure = Closure(gameState)
  /\ pending = 0
  /\ now = 1
  /\ inputs = 0
  /\ games = TRUE
  /\ lastOp = "start"
  /\ runCoins = 0
  /\ submitted = {}
  /\ rejected = {}
  /\ screenWidth = SCREEN_WIDTH

NextFinal ==
  \/ FinalTick
  \/ FinalTimerFire
  \/ Render
  \/ LoadSavedData
  \/ WatchAdToContinue
  \/ ReturnToMenu

SpecFinal == InitFinal /\ [][NextFinal]_vars

----------------------------------------------------------------------------
(* Contact: one or two ticks of the three engines on runs whose ball is a  *)
(* tick above the ground line, on it or short of it, with coins and        *)
(* obstacles in reach of the ball, at the edge of the reach and out of it  *)

MaxContactTicks == 2

\* how far short of the ground line the ball is after the next tick
GroundGaps == {0, 1, Units(500)}

\* where an entity is after the next tick, relative to the ball: on it, in
\* reach, at 40 units exactly (twice), and out of reach
ContactOffsets ==
  { <<0, 0>>, <<Units(24), 31999>>, <<Units(24), Units(32)>>, <<-Units(40), 0>>,
    <<Units(10), -Units(60)>> }

EngineGravity(e) == IF e = "radial" THEN RadialConfig.gravity ELSE gravity

\* the ball at rest, a tick before it is gap short of the ground line
ContactBall(e, gap) ==
  [CentreBall(0) EXCEPT !.y = SCREEN_HEIGHT - ballRadius - gap - EngineGravity(e)]

\* the centre of the ball after the next tick
ContactPoint(e, gap) ==
  [x |-> SCREEN_WIDTH \div 2, y |-> SCREEN_HEIGHT - ballRadius - gap]

ContactCoin(e, gap, off, value) ==
  LET coin == newCoin("left", value, 0, MultiplierDen)
  IN [coin EXCEPT !.x = ContactPoint(e, gap).x + off[1] - coin.vx,
                  !.y = ContactPoint(e, gap).y + off[2]]

\* a cone whose centre is at the offset from the ball after the next tick
ContactObstacle(e, gap, off) ==
  LET cone == newObstacle("left", "cone", 0, MultiplierDen)
  IN [cone EXCEPT !.x = ContactPoint(e, gap).x + off[1] - cone.vx - cone.width \div 2,
                  !.y = ContactPoint(e, gap).y + off[2] - cone.height \div 2]

\* a cone that the next tick moves onto the far border of the window
LeavingObstacle ==
  LET cone == newObstacle("left", "cone", Units(100), MultiplierDen)
  IN [cone EXCEPT !.x = SCREEN_WIDTH + Units(100) - cone.vx]

ContactCoins(e, gap) ==
  {<<>>}
  \cup {<<ContactCoin(e, gap, a, 1)>> : a \in ContactOffsets}
  \cup {<<ContactCoin(e, gap, a, 1), ContactCoin(e, gap, b, 5)>> : a, b \in ContactOffsets}

ContactObstacles(e, gap) ==
  {<<>>, <<LeavingObstacle>>}
  \cup {<<ContactObstacle(e, gap, a)>> : a \in ContactOffsets}
  \cup {<<LeavingObstacle, ContactObstacle(e, gap, a)>> : a \in ContactOffsets}

\* the values of a sequence of coins, added up
RECURSIVE CoinsValue(_)
CoinsValue(coins) == IF coins = <<>> THEN 0 ELSE coins[1].value + CoinsValue(Tail(coins))

ContactFrame == <<engine, saved, loadState, games, runCoins, submitted, rejected, screenWidth>>

\* the setInterval callback of the full engine
ContactTick ==
  /\ engine = "full"
  /\ updatePhysicsRuns(closure)
  /\ timers = <<>>
  /\ gameState.score < MaxContactTicks
  /\ \E cn \in CoinRolls :
       /\ Len(cn) > 0 => gameState.score < MaxInputScore
       /\ Timed(updatePhysicsUpdater(Here, [obstacle |-> <<>>, coin |-> cn]), "tick", Len(cn))
  /\ UNCHANGED ContactFrame

\* the setInterval callback of the flap and of the radial engine
ContactEngineTick ==
  /\ engine \in {"flap", "radial"}
  /\ engineUpdatePhysicsRuns(closure)
  /\ gameState.score < MaxContactTicks
  /\ \E gs \in {IF engine = "flap" THEN flapUpdatePhysics(gameState, <<>>)
                                    ELSE radialUpdatePhysics(gameState, <<>>)} :
       EngineTimed(gs, "tick", 0)
  /\ UNCHANGED <<timers, storage, now>>
  /\ UNCHANGED ContactFrame

ContactRender ==
  /\ pending > 0
  /\ IF engine = "full"
     THEN Press(Here, "render")
     ELSE EngineRendered(gameState, "render") /\ UNCHANGED <<timers, storage, now>>
  /\ UNCHANGED inputs
  /\ UNCHANGED ContactFrame

InitContact ==
  /\ engine \in {"full", "flap", "radial"}
  /\ \E gap \in GroundGaps :
       \E obstacles \in ContactObstacles(engine, gap), coins \in ContactCoins(engine, gap) :
          IF engine = "full"
          THEN /\ gameState = [InitialGameState EXCEPT
                                 !.currentScreen = "playing",
                                 !.ball = ContactBall(engine, gap),
                                 !.obstacles = obstacles,
                                 !.coins = coins]
               /\ closure = Closure(gameState)
          ELSE /\ coins = <<>>
               /\ gameState = [EngineInitialState EXCEPT
                                 !.ball = ContactBall(engine, gap),
                                 !.obstacles = obstacles]
               /\ closure = EngineClosure(gameState)
  /\ pending = 0
  /\ timers = <<>>
  /\ storage = EmptyStorage
  /\ saved = storage
  /\ loadState = "done"
  /\ now = 1
  /\ inputs = 0
  /\ games = TRUE
  /\ lastOp = "start"
  /\ runCoins = 0
  /\ submitted = {}
  /\ rejected = {}
  /\ screenWidth = SCREEN_WIDTH

NextContact ==
  \/ ContactTick
  \/ ContactEngineTick
  \/ ContactRender

SpecContact == InitContact /\ [][NextContact]_vars

----------------------------------------------------------------------------
(* The walls alone: the ball step of updatePhysics and handleTouch on      *)
(* windows of several widths, down to a window as wide as the ball, with   *)
(* the ball at either wall and between them and any velocity a tap leaves  *)

MaxWallTicks == 3

\* Dimensions.get('window').width
ScreenWidths == {2 * ballRadius, 2 * ballRadius + 1, SCREEN_WIDTH}

WallsFrame == <<engine, pending, timers, storage, saved, loadState, now,
                games, runCoins, submitted, rejected, screenWidth>>

WallsTick ==
  /\ updatePhysicsRuns(closure)
  /\ gameState.score < MaxWallTicks
  /\ gameState' = [gameState EXCEPT !.ball = BallAfterIn(gameState.ball, screenWidth),
                                    !.score = @ + 1]
  /\ closure' = Closure(gameState')
  /\ lastOp' = "tick"
  /\ UNCHANGED inputs
  /\ UNCHANGED WallsFrame

WallsTap ==
  /\ handleTouchRuns(closure)
  /\ Spend(1)
  /\ \E touchX \in {0, screenWidth} :
       /\ gameState' = handleTouchUpdater(gameState, touchX)
       /\ closure' = Closure(gameState')
  /\ lastOp' = "tap"
  /\ UNCHANGED WallsFrame

InitWalls ==
  /\ engine = "full"
  /\ screenWidth \in ScreenWidths
  /\ \E x \in {ballRadius, screenWidth \div 2, screenWidth - ballRadius}, vx \in PriorVelXs :
       gameState = [InitialGameState EXCEPT
                      !.currentScreen = "playing",
                      !.ball = [CentreBall(0) EXCEPT !.x = x, !.vx = vx]]
  /\ closure = Closure(gameState)
  /\ pending = 0
  /\ timers = <<>>
  /\ storage = EmptyStorage
  /\ saved = storage
  /\ loadState = "done"
  /\ now = 1
  /\ inputs = 0
  /\ games = TRUE
  /\ lastOp = "start"
  /\ runCoins = 0
  /\ submitted = {}
  /\ rejected = {}

NextWalls ==
  \/ WallsTick
  \/ WallsTap

SpecWalls == InitWalls /\ [][NextWalls]_vars

----------------------------------------------------------------------------
(* Properties *)

\* C1: the deferred update of a completed achievement raises collectedCoins
\* by exactly that achievement's reward, so that rewards completed in the
\* same operation add up and no coins granted in between are lost
C1_RewardCreditedOnce ==
  [][lastOp' = "timer" =>
       gameState'.collectedCoins =
         gameState.collectedCoins + reward(Head(timers).achievementId)]_vars

\* C2: after the startup check, when the stored last login is not today,
\* currentStreak is the stored streak plus 1 (wrapping to 1 past 7) if the
\* stored last login is yesterday, and 1 otherwise
C2_StreakFromStoredLogin ==
  (lastOp = "load" /\ saved.juggleJamLastLoginDate # toDateString(Today)) =>
    LET stored == IF Truthy(saved.juggleJamCurrentStreak)
                  THEN parseInt(saved.juggleJamCurrentStreak) ELSE 0
        next == IF saved.juggleJamLastLoginDate = toDateString(Today - 1)
                THEN stored + 1 ELSE 1
    IN gameState.currentStreak = IF next > 7 THEN 1 ELSE next

\* C3: when the stored last login is already today, the startup check
\* leaves currentStreak, lastLoginDate and the claimed flags as stored
C3_SameDayLaunchUnchanged ==
  (lastOp = "load" /\ saved.juggleJamLastLoginDate = toDateString(Today)) =>
    /\ gameState.currentStreak = parseInt(saved.juggleJamCurrentStreak)
    /\ gameState.lastLoginDate = saved.juggleJamLastLoginDate
    /\ gameState.dailyRewards = JSONparse(saved.juggleJamDailyRewards)
    /\ storage.juggleJamCurrentStreak = saved.juggleJamCurrentStreak
    /\ storage.juggleJamLastLoginDate = saved.juggleJamLastLoginDate
    /\ storage.juggleJamDailyRewards = saved.juggleJamDailyRewards

\* C4: with a stored streak of 7 and a stored last login of yesterday, the
\* startup check sets currentStreak to 1 and clears the claimed flag of all
\* seven daily rewards; after the check currentStreak is within 1..7
C4_WrapAfterSeven ==
  /\ (/\ lastOp = "load"
      /\ saved.juggleJamCurrentStreak = NumToString(7)
      /\ saved.juggleJamLastLoginDate = toDateString(Today - 1)) =>
       /\ gameState.currentStreak = 1
       /\ Len(gameState.dailyRewards) = 7
       /\ \A i \in DOMAIN gameState.dailyRewards : ~gameState.dailyRewards[i].claimed
  /\ (engine = "full" /\ loadState = "done") => gameState.currentStreak \in 1..7

\* C5: once the phase is not playing, a tick changes neither the ball, the
\* obstacles, the coins, the score nor collectedCoins, even a tick whose
\* callback was created before the phase change was rendered
C5_WorldFrozenOutsidePlaying ==
  [][(gameState.currentScreen # "playing" /\ lastOp' = "tick") =>
       /\ gameState'.ball = gameState.ball
       /\ gameState'.obstacles = gameState.obstacles
       /\ gameState'.coins = gameState.coins
       /\ gameState'.score = gameState.score
       /\ gameState'.collectedCoins = gameState.collectedCoins]_vars

\* C6: in every engine variant a tap delivered while the game is not being
\* played leaves the whole game state unchanged
C6_TapOutsidePlayingIgnored ==
  [][(/\ lastOp' = "tap"
      /\ IF engine = "full"
         THEN gameState.currentScreen # "playing"
         ELSE ~gameState.isPlaying \/ gameState.gameOver) =>
       gameState' = gameState]_vars

\* C7: currentScreen changes only along menu->playing (start),
\* playing->gameOver (tick), gameOver->playing (restart, watch-ad continue),
\* gameOver->menu, menu->store, menu->leaderboard, menu->achievements and
\* store, leaderboard, achievements->menu; and no tick changes the world
\* while the phase is store, leaderboard or achievements
C7_PhaseTransitions ==
  [][/\ gameState'.currentScreen # gameState.currentScreen =>
          <<gameState.currentScreen, gameState'.currentScreen, lastOp'>> \in
            { <<"menu", "playing", "start">>,
              <<"playing", "gameOver", "tick">>,
              <<"gameOver", "playing", "restart">>,
              <<"gameOver", "playing", "watchAd">>,
              <<"gameOver", "menu", "menu">>,
              <<"menu", "store", "store">>,
              <<"menu", "leaderboard", "leaderboard">>,
              <<"menu", "achievements", "achievements">>,
              <<"store", "menu", "menu">>,
              <<"leaderboard", "menu", "menu">>,
              <<"achievements", "menu", "menu">> }
     /\ (/\ gameState.currentScreen \in {"store", "leaderboard", "achievements"}
         /\ lastOp' = "tick") =>
          /\ gameState'.ball = gameState.ball
          /\ gameState'.obstacles = gameState.obstacles
          /\ gameState'.coins = gameState.coins
          /\ gameState'.score = gameState.score
          /\ gameState'.collectedCoins = gameState.collectedCoins]_vars

\* C7: the store is open after a run that has moved the world
C7_StoreAfterRun ==
  /\ gameState.currentScreen = "store"
  /\ lastOp = "store"
  /\ gameState.score > 0
  /\ gameState.ball # CentreBall(0)

\* C8: a start from menu and a restart from gameOver both yield playing,
\* the ball at the centre with zero velocity, no obstacles, no coins,
\* score 0, canWatchAdToContinue true and totalGamesPlayed one higher, the
\* rest of the state depending on the prior state alone
C8_StartAndRestart ==
  [][lastOp' \in {"start", "restart"} =>
       LET total == gameState.totalGamesPlayed + 1
       IN /\ gameState.currentScreen = IF lastOp' = "start" THEN "menu" ELSE "gameOver"
          /\ gameState'.currentScreen = "playing"
          /\ gameState'.ball = [x |-> SCREEN_WIDTH \div 2, y |-> SCREEN_HEIGHT \div 2,
                                vx |-> 0, vy |-> 0, radius |-> ballRadius]
          /\ gameState'.obstacles = <<>>
          /\ gameState'.coins = <<>>
          /\ gameState'.score = 0
          /\ gameState'.canWatchAdToContinue
          /\ gameState'.totalGamesPlayed = total
          /\ gameState' =
               [gameState EXCEPT
                  !.currentScreen = "playing",
                  !.ball = gameState'.ball,
                  !.obstacles = <<>>,
                  !.coins = <<>>,
                  !.score = 0,
                  !.canWatchAdToContinue = TRUE,
                  !.totalGamesPlayed = total,
                  !.achievements =
                    [i \in DOMAIN gameState.achievements |->
                       AchievementAfter(
                         AchievementAfter(gameState.achievements[i], "first_game", total),
                         "play_10_games", total)]]]_vars

\* C8: a second run has been entered by restart after a first one scored
C8_Restarted ==
  /\ lastOp = "restart"
  /\ gameState.currentScreen = "playing"
  /\ gameState.totalGamesPlayed = 2
  /\ gameState.leaderboard # <<>>

\* C9: the watch-ad continue goes from gameOver to playing, puts the ball
\* at the centre with velocity (0, -3), clears canWatchAdToContinue and
\* leaves score, obstacles, coins, totalGamesPlayed, highScore and
\* collectedCoins unchanged
C9_WatchAdContinue ==
  [][lastOp' = "watchAd" =>
       /\ gameState.currentScreen = "gameOver"
       /\ gameState'.currentScreen = "playing"
       /\ gameState'.ball = [x |-> SCREEN_WIDTH \div 2, y |-> SCREEN_HEIGHT \div 2,
                             vx |-> 0, vy |-> -Units(3), radius |-> ballRadius]
       /\ ~gameState'.canWatchAdToContinue
       /\ gameState'.score = gameState.score
       /\ gameState'.obstacles = gameState.obstacles
       /\ gameState'.coins = gameState.coins
       /\ gameState'.totalGamesPlayed = gameState.totalGamesPlayed
       /\ gameState'.highScore = gameState.highScore
       /\ gameState'.collectedCoins = gameState.collectedCoins]_vars

\* C9: a run with a score and an obstacle on screen has been continued
C9_Continued ==
  /\ lastOp = "watchAd"
  /\ gameState.score > 0
  /\ gameState.obstacles # <<>>

\* C10: a watch-ad continue happens only while canWatchAdToContinue is
\* true and makes it false, and it becomes true again only by a start or a
\* restart: one continue per run at most
C10_ContinueOncePerRun ==
  [][/\ lastOp' = "watchAd" =>
          /\ gameState.canWatchAdToContinue
          /\ ~gameState'.canWatchAdToContinue
     /\ (~gameState.canWatchAdToContinue /\ gameState'.canWatchAdToContinue) =>
          lastOp' \in {"start", "restart"}
     /\ (~closure.canWatchAdToContinue /\ closure'.canWatchAdToContinue) =>
          lastOp' \in {"start", "restart"}]_vars

\* C10: the game over screen of a continued run, which offers no continue
C10_SecondGameOver ==
  /\ games
  /\ gameState.currentScreen = "gameOver"
  /\ closure.currentScreen = "gameOver"
  /\ ~closure.canWatchAdToContinue
  /\ ~gameState.canWatchAdToContinue
  /\ ~ENABLED WatchAdToContinue

\* C11: after the startup load the progress of an achievement never
\* decreases and a completed achievement stays completed; an achievement
\* changes only while it is not completed and only to a higher progress, so
\* an update with a sample at or below the progress, or of a completed
\* achievement, leaves it as it was
C11_AchievementsMonotone ==
  [][loadState = "done" =>
       \A i \in DOMAIN gameState.achievements :
          LET old == gameState.achievements[i]
              new == gameState'.achievements[i]
          IN /\ new.id = old.id
             /\ new.progress >= old.progress
             /\ old.completed => new.completed
             /\ new # old => ~old.completed /\ new.progress > old.progress]_vars

\* C11: after the load, a second start has updated first_game, which was
\* completed, and play_10_games, which was at 1
C11_SecondStart ==
  /\ loadState = "done"
  /\ lastOp \in {"start", "restart"}
  /\ gameState.totalGamesPlayed = 2
  /\ \E i \in DOMAIN gameState.achievements :
        /\ gameState.achievements[i].id = "first_game"
        /\ gameState.achievements[i].completed
        /\ gameState.achievements[i].progress = 1
  /\ \E i \in DOMAIN gameState.achievements :
        /\ gameState.achievements[i].id = "play_10_games"
        /\ ~gameState.achievements[i].completed
        /\ gameState.achievements[i].progress = 2

\* C12: a tick leaves collectedCoins, highScore, achievements, leaderboard,
\* unlockedSkins, selectedSkin, dailyRewards, currentStreak and
\* totalGamesPlayed unchanged and writes nothing to the storage (the ticks
\* whose render runs the gameOver finalization are left out: now' # now)
C12_TickLeavesProgression ==
  [][lastOp' = "tick" /\ now' = now =>
       /\ gameState'.collectedCoins = gameState.collectedCoins
       /\ gameState'.highScore = gameState.highScore
       /\ gameState'.achievements = gameState.achievements
       /\ gameState'.leaderboard = gameState.leaderboard
       /\ gameState'.unlockedSkins = gameState.unlockedSkins
       /\ gameState'.selectedSkin = gameState.selectedSkin
       /\ gameState'.dailyRewards = gameState.dailyRewards
       /\ gameState'.currentStreak = gameState.currentStreak
       /\ gameState'.totalGamesPlayed = gameState.totalGamesPlayed
       /\ storage' = storage]_vars

\* C13: the coin figure a gameOver finalization submits is the sum of the
\* values of the coins collected since the last start or restart: after
\* the finalization the player's bestCoins is that sum, or the earlier
\* bestCoins where that is higher
C13_SubmitsCoinsOfTheRun ==
  [][now' # now /\ lastOp' # "load" =>
       LET old == findIndex(gameState.leaderboard, gameState.playerName)
           new == findIndex(gameState'.leaderboard, gameState'.playerName)
       IN /\ new > 0
          /\ gameState'.leaderboard[new].bestCoins =
               IF old > 0
               THEN Max(gameState.leaderboard[old].bestCoins, runCoins')
               ELSE runCoins']_vars

\* C14: for every player name the leaderboard holds one entry once the
\* player has submitted and none before; its bestTime and bestCoins are the
\* maxima of the figures the player has submitted, each on its own, and the
\* timestamp and skin of a metric are those of the first submission that
\* reached that maximum (a later submission that does not strictly beat the
\* best changes neither)
C14_BestsAreMaxima ==
  /\ \A i, j \in DOMAIN gameState.leaderboard :
        gameState.leaderboard[i].playerName = gameState.leaderboard[j].playerName => i = j
  /\ \A playerName \in PlayerNames :
        LET calls == {s \in submitted : s.playerName = playerName}
            index == findIndex(gameState.leaderboard, playerName)
            entry == gameState.leaderboard[index]
            bestTime == CHOOSE s \in calls :
                          \A t \in calls : \/ t.finalScore < s.finalScore
                                           \/ t.finalScore = s.finalScore /\ s.time <= t.time
            bestCoins == CHOOSE s \in calls :
                           \A t \in calls : \/ t.coinsEarned < s.coinsEarned
                                            \/ t.coinsEarned = s.coinsEarned /\ s.time <= t.time
        IN IF calls = {}
           THEN index = 0
           ELSE /\ index > 0
                /\ entry.bestTime = bestTime.finalScore
                /\ entry.bestTimeTimestamp = bestTime.time
                /\ entry.bestTimeSkin = bestTime.skin
                /\ entry.bestCoins = bestCoins.coinsEarned
                /\ entry.bestCoinsTimestamp = bestCoins.time
                /\ entry.bestCoinsSkin = bestCoins.skin
  /\ gameState.leaderboard = closure.leaderboard
  /\ storage.juggleJamLeaderboard =
       IF submitted = {} THEN Null ELSE JSONstringify(gameState.leaderboard)

\* C14: a player has submitted three times; the best time and the best
\* coins come from different submissions made with different skins, and the
\* last submission beat neither
C14_IndependentBests ==
  \E i \in DOMAIN gameState.leaderboard :
     LET entry == gameState.leaderboard[i]
     IN /\ Cardinality({s \in submitted : s.playerName = entry.playerName}) = 3
        /\ entry.bestTime > 0
        /\ entry.bestCoins > 0
        /\ entry.bestTimeTimestamp # entry.bestCoinsTimestamp
        /\ entry.bestTimeSkin # entry.bestCoinsSkin
        /\ entry.bestTimeTimestamp < now - 1
        /\ entry.bestCoinsTimestamp < now - 1
        /\ lastOp = "submit"

\* C15: after the startup load highScore never decreases; it changes only
\* in a step whose render runs the gameOver finalization, only to
\* floor(score / 60) of the finished run and only to a higher value
C15_HighScoreMonotone ==
  [][loadState = "done" =>
       /\ gameState'.highScore >= gameState.highScore
       /\ gameState'.highScore # gameState.highScore =>
            /\ now' # now
            /\ closure'.currentScreen = "gameOver"
            /\ gameState'.highScore = FloorDiv(closure'.score, 60)
            /\ gameState'.highScore > gameState.highScore]_vars

\* C15: a second run has ended below the high score the first run set
C15_LowerSecondRun ==
  /\ loadState = "done"
  /\ gameState.currentScreen = "gameOver"
  /\ closure.currentScreen = "gameOver"
  /\ gameState.totalGamesPlayed = 2
  /\ gameState.highScore = 1
  /\ gameState.score < 60
  /\ pending = 0
  /\ \E i \in DOMAIN gameState.leaderboard : gameState.leaderboard[i].bestTime = 1

\* C16: once the startup load is done, every scheduled update has run and
\* every update is rendered, what the storage holds is the in-memory state:
\* the coin balance, the high score, the leaderboard, the achievements, the
\* daily rewards, the streak, the unlocked and the selected skin and the
\* number of games played, read back as the startup load reads them
C16_StoredIsInMemory ==
  (loadState = "done" /\ timers = <<>> /\ pending = 0) =>
     LET stored == loadedState(gameState, storage)
     IN /\ stored.collectedCoins = gameState.collectedCoins
        /\ stored.highScore = gameState.highScore
        /\ stored.leaderboard = gameState.leaderboard
        /\ stored.achievements = gameState.achievements
        /\ stored.dailyRewards = gameState.dailyRewards
        /\ stored.currentStreak = gameState.currentStreak
        /\ stored.unlockedSkins = gameState.unlockedSkins
        /\ stored.selectedSkin = gameState.selectedSkin
        /\ stored.totalGamesPlayed = gameState.totalGamesPlayed

\* C17: a tap applied while playing changes the velocity of the ball and
\* nothing else: the position and the radius of the ball, the obstacles, the
\* coins, the score, the screen and the progression fields stay as they
\* were, nothing is written to the storage and nothing is scheduled
C17_TapChangesVelocityOnly ==
  [][(/\ lastOp' = "tap"
      /\ handleTouchRuns(closure)
      /\ gameState.currentScreen = "playing") =>
       /\ gameState' = [gameState EXCEPT !.ball.vx = gameState'.ball.vx,
                                         !.ball.vy = gameState'.ball.vy]
       /\ gameState'.ball.x = gameState.ball.x
       /\ gameState'.ball.y = gameState.ball.y
       /\ storage' = storage
       /\ timers' = timers
       /\ now' = now]_vars

\* C17: a tap has been applied to a ball in flight after the load and the
\* first_game reward
C17_TapApplied ==
  /\ lastOp = "tap"
  /\ gameState.currentScreen = "playing"
  /\ closure.currentScreen = "playing"
  /\ gameState.ball.vy = -Units(5)
  /\ gameState.ball.vx = Units(2)
  /\ gameState.collectedCoins > 0
  /\ loadState = "done"

\* C18: right after a tap that the tap handler of the flap or of the
\* radial engine applied, |velocity.x| <= 4 and |velocity.y| <= 8
C18_TapVelocityBounded ==
  [][(/\ lastOp' = "tap"
      /\ engine = "radial" \/ flapHandleTouchRuns(closure)) =>
       /\ Abs(gameState'.ball.vx) <= Units(4)
       /\ Abs(gameState'.ball.vy) <= Units(8)]_vars

\* C19: a tap of the flap model while playing, at any coordinates, sets
\* velocity.y to -5 whatever it was and velocity.x to
\* clamp(prevVelX * 0.7 + f, -4, 4), f being +2 for a tap right of the ball,
\* -2 for a tap left of it and 0 for a tap at the ball's x
C19_FlapTap ==
  handleTouchRuns(closure) =>
    \A touchX \in TapXs :
       LET after == handleTouchUpdater(gameState, touchX).ball
           f == CASE touchX > gameState.ball.x -> Units(2)
                  [] touchX < gameState.ball.x -> -Units(2)
                  [] touchX = gameState.ball.x -> 0
           sum == MulFrac(gameState.ball.vx, 7, 10) + f
       IN /\ after.vy = -Units(5)
          /\ after.vx = IF sum > Units(4) THEN Units(4)
                        ELSE IF sum < -Units(4) THEN -Units(4) ELSE sum

\* C19: a tap right of a ball that moved right at 3 or more has been cut
\* to 4, from whatever vertical velocity
C19_TapClamped ==
  /\ lastOp = "tap"
  /\ gameState.currentScreen = "playing"
  /\ gameState.ball.vx = Units(4)
  /\ gameState.ball.vy = -Units(5)
  /\ gameState.score > 0

\* C20: a tick advances every obstacle and every coin by its velocity and
\* keeps, in their order, those whose advanced position has x within
\* (-100, SCREEN_WIDTH + 100) and y within (-100, SCREEN_HEIGHT + 100); the
\* others are removed in that tick, and after every step every obstacle and
\* every coin of the world lies within that window
C20_CullWindow ==
  [][LET within(e) == /\ -Units(100) < e.x /\ e.x < SCREEN_WIDTH + Units(100)
                      /\ -Units(100) < e.y /\ e.y < SCREEN_HEIGHT + Units(100)
         advanced(e) == [e EXCEPT !.x = e.x + e.vx, !.y = e.y + e.vy]
         kept(entities) ==
           SelectSeq([i \in DOMAIN entities |-> advanced(entities[i])], within)
         keptObstacles == kept(gameState.obstacles)
     IN /\ \A i \in DOMAIN gameState'.obstacles : within(gameState'.obstacles[i])
        /\ \A i \in DOMAIN gameState'.coins : within(gameState'.coins[i])
        /\ lastOp' = "tick" =>
             /\ Len(gameState'.obstacles) >= Len(keptObstacles)
             /\ SubSeq(gameState'.obstacles, 1, Len(keptObstacles)) = keptObstacles
             /\ \A i \in DOMAIN gameState.coins :
                  ~within(advanced(gameState.coins[i])) =>
                    \A j \in DOMAIN gameState'.coins :
                       gameState'.coins[j] # advanced(gameState.coins[i])]_vars

\* C20: after a tick an obstacle that came from the left stands on the last
\* position inside the window (the next tick removes it) beside one that
\* the tick spawned
C20_LastPositionInside ==
  /\ lastOp = "tick"
  /\ gameState.score = 1
  /\ Len(gameState.obstacles) = 2
  /\ gameState.obstacles[1].x < SCREEN_WIDTH + Units(100)
  /\ gameState.obstacles[1].x + gameState.obstacles[1].vx >= SCREEN_WIDTH + Units(100)
  /\ gameState.obstacles[2].x = -Units(50)
  /\ gameState.coins = <<>>

\* C21: for the tick count s of the run, speedMultiplier is
\* min(1 + (s / 60 / 120) * 0.8, 2.2) = min(9000 + s, 19800) / 9000 and
\* spawnMultiplier is min(1 + (s / 60 / 90) * 2, 3.5) =
\* min(2700 + s, 9450) / 2700; both are at least 1, at most 2.2 and 3.5, and
\* not lower one tick later
C21_DifficultyFormula ==
  LET s == gameState.score
      m == getDifficultyMultiplier(s)
      next == getDifficultyMultiplier(s + 1)
  IN /\ m.speedMultiplier * 9000 = MultiplierDen * Min(9000 + s, 19800)
     /\ m.spawnMultiplier * 2700 = MultiplierDen * Min(2700 + s, 9450)
     /\ m.speedMultiplier >= MultiplierDen
     /\ m.spawnMultiplier >= MultiplierDen
     /\ 10 * m.speedMultiplier <= 22 * MultiplierDen
     /\ 10 * m.spawnMultiplier <= 35 * MultiplierDen
     /\ next.speedMultiplier >= m.speedMultiplier
     /\ next.spawnMultiplier >= m.spawnMultiplier

\* C21: past both caps a tick has spawned an obstacle at 2.2 times the base
\* speed
C21_SpawnedAtCap ==
  /\ lastOp = "tick"
  /\ gameState.score > 10801
  /\ \E i \in DOMAIN gameState.obstacles :
        /\ gameState.obstacles[i].x = -Units(50)
        /\ 10 * gameState.obstacles[i].vx = 22 * obstacleSpeed

\* C22 as stated: from a ball at rest at y = 400 one tick of the simple
\* damping engine leaves position.y = 400.297 and velocity.y = 0.297, with
\* position.x and velocity.x unchanged
C22_DampedVelocityMovesBall ==
  [][(/\ lastOp' = "tick"
      /\ gameState.ball.y = Units(400)
      /\ gameState.ball.vx = 0
      /\ gameState.ball.vy = 0) =>
       gameState'.ball = [gameState.ball EXCEPT !.y = 400297, !.vy = 297]]_vars

\* C22 amended: from a ball at rest at y = 400 one tick of the simple
\* damping engine leaves position.y = 400.3 (the ball moves by the velocity
\* before damping, 0.3) and stores velocity.y = 0.297, with position.x and
\* velocity.x unchanged
C22_UndampedVelocityMovesBall ==
  [][(/\ lastOp' = "tick"
      /\ gameState.ball.y = Units(400)
      /\ gameState.ball.vx = 0
      /\ gameState.ball.vy = 0) =>
       gameState'.ball = [gameState.ball EXCEPT !.y = 400300, !.vy = 297]]_vars

\* C22: the first tick of a ball that was at rest at y = 400
C22_FirstTickFromRest ==
  /\ lastOp = "tick"
  /\ gameState.score = 1
  /\ gameState.ball.y = 400300
  /\ gameState.ball.vy = 297
  /\ gameState.ball.vx = 0
  /\ gameState.ball.x = SCREEN_WIDTH \div 2

\* C23: every obstacle of the world has the width and the height of its
\* kind (cone 30 x 40, goalpost 20 x 80, defender 40 x 60), whichever side
\* it was spawned on and however many ticks have advanced it
C23_DimensionsByKind ==
  \A i \in DOMAIN gameState.obstacles :
     <<gameState.obstacles[i].type, gameState.obstacles[i].width,
       gameState.obstacles[i].height>> \in
       { <<"cone", Units(30), Units(40)>>,
         <<"goalpost", Units(20), Units(80)>>,
         <<"defender", Units(40), Units(60)>> }

\* C23: a goalpost spawned on the right has been advanced by ten ticks
C23_GoalpostAdvanced ==
  /\ lastOp = "tick"
  /\ gameState.score > 10
  /\ \E i \in DOMAIN gameState.obstacles :
        /\ gameState.obstacles[i].type = "goalpost"
        /\ gameState.obstacles[i].vx < 0
        /\ gameState.obstacles[i].x < SCREEN_WIDTH + Units(50) - Units(10)
        /\ gameState.obstacles[i].height = Units(80)

\* C24: after every step the leaderboard holds at most one entry per
\* player name; a step whose render runs the gameOver finalization adds one
\* entry when the player had none and keeps the number of entries when the
\* player had one, and no other step but the startup load changes that number
C24_OneEntryPerPlayer ==
  [][/\ \A i, j \in DOMAIN gameState'.leaderboard :
          gameState'.leaderboard[i].playerName = gameState'.leaderboard[j].playerName
            => i = j
     /\ lastOp' # "load" =>
          Len(gameState'.leaderboard) =
            IF now' # now /\ findIndex(gameState.leaderboard, gameState.playerName) = 0
            THEN Len(gameState.leaderboard) + 1
            ELSE Len(gameState.leaderboard)]_vars

\* C24: the finalization has run twice for the gameOver of the first run
\* and the player has one entry
C24_FinalizedTwice ==
  /\ gameState.currentScreen = "gameOver"
  /\ gameState.totalGamesPlayed = 1
  /\ now = 3
  /\ Len(gameState.leaderboard) = 1
  /\ gameState.leaderboard[1].playerName = gameState.playerName
  /\ loadState = "done"


\* C25: a read or parse failure during the startup load is not fatal: when
\* the load has ended on storage with an unreadable, non-numeric or
\* non-JSON item and no game was started yet, the component is mounted,
\* every progression field has its default, the screen is the menu and a
\* game can be started.
C25_LoadFailureFallsBack ==
  (~games /\ (loadState = "failed"
               \/ (loadState = "done" /\ (NotANumber(saved) \/ loadedStateThrows(saved))))) =>
    /\ engine = "full"
    /\ gameState.highScore = 0
    /\ gameState.collectedCoins = 0
    /\ gameState.unlockedSkins = <<"classic">>
    /\ gameState.selectedSkin = "classic"
    /\ gameState.leaderboard = <<>>
    /\ gameState.currentStreak = 0
    /\ gameState.totalGamesPlayed = 0
    /\ gameState.achievements = INITIAL_ACHIEVEMENTS
    /\ gameState.dailyRewards = DAILY_REWARDS
    /\ gameState.currentScreen = "menu"
    /\ ENABLED LoadStartGame

\* C26: a failed storage write is logged and not retried, changes no
\* in-memory field and blocks nothing: every step on storage that refuses
\* writes leaves the game state, the screen and the pending timers as the
\* same handler leaves them when no write fails; a refused item stays as
\* it was and every other item is as without the failure (so a later
\* write lands); and in a game whose start could not store the number of
\* games played the next tick is still due.
C26_RejectedWriteIsHarmless ==
  [][/\ \E ctx \in WritesHandlers :
          /\ gameState' = ctx.gs
          /\ timers' = ctx.timers
          /\ closure' = Closure(ctx.gs)
          /\ \A k \in StorageKeys :
               storage'[k] = IF k \in rejected' THEN storage[k] ELSE ctx.storage[k]
     /\ (/\ storage.juggleJamTotalGamesPlayed # NumToString(gameState.totalGamesPlayed)
         /\ updatePhysicsRuns(closure) /\ timers = <<>>
         /\ gameState.score < MaxWriteTicks) => ENABLED WritesTick]_vars

\* C26 witness: the writes of the startup load were refused, the write of
\* the later start landed, and ticks have run
C26_WriteLandsAfterRejection ==
  /\ saved.juggleJamLastLoginDate # toDateString(Today)
  /\ storage.juggleJamLastLoginDate = saved.juggleJamLastLoginDate
  /\ gameState.lastLoginDate = toDateString(Today)
  /\ storage.juggleJamTotalGamesPlayed = NumToString(1)
  /\ gameState.score = MaxWriteTicks

\* C27: every entry into gameOver is followed by the finalization before
\* the phase leaves gameOver: in every step that leaves gameOver (back to
\* the menu, a restart, a watch-ad continue) the leaderboard holds an entry
\* of the current player with bestTime >= floor(score / 60), and
\* highScore >= floor(score / 60).
C27_FinalizedBeforeLeaving ==
  [][(gameState.currentScreen = "gameOver" /\ gameState'.currentScreen # "gameOver") =>
       /\ \E i \in DOMAIN gameState.leaderboard :
            /\ gameState.leaderboard[i].playerName = gameState.playerName
            /\ gameState.leaderboard[i].bestTime >= FloorDiv(gameState.score, 60)
       /\ gameState.highScore >= FloorDiv(gameState.score, 60)]_vars

\* C28: in each tick every coin whose centre is nearer to the centre of the
\* ball than ballRadius + coin.radius is removed, every other coin that
\* survived the cull (and the coin spawned by the tick) is kept in order,
\* and collectedCoins grows in that tick by the sum of the values of the
\* removed coins; the coins of the world after the tick are out of reach.
C28_CoinsInReachAreCollected ==
  [][(engine = "full" /\ lastOp' = "tick") =>
       \E cn \in CoinRolls :
         LET ball == gameState'.ball
             mult == getDifficultyMultiplier(gameState.score)
             kept == AdvanceAndCull(gameState.coins)
             present == IF cn # <<>>
                        THEN Append(kept, newCoin(cn[1].side, cn[1].value, cn[1].y,
                                                  mult.speedMultiplier))
                        ELSE kept
             InReach(c) == LET dx == ball.x - c.x
                               dy == ball.y - c.y
                               r == ballRadius + c.radius
                           IN Abs(dx) < r /\ Abs(dy) < r /\ dx * dx + dy * dy < r * r
             Away(c) == ~InReach(c)
         IN /\ gameState'.coins = SelectSeq(present, Away)
            /\ gameState'.collectedCoins =
                 gameState.collectedCoins + CoinsValue(SelectSeq(present, InReach))]_vars

\* C28 witness: the first tick has collected the coin of value 5 and kept
\* the coin that is at 40 units from the ball exactly
C28_OneCollectedOneKept ==
  /\ engine = "full"
  /\ lastOp = "tick"
  /\ gameState.score = 1
  /\ gameState.collectedCoins = 5
  /\ Len(gameState.coins) = 1
  /\ gameState.coins[1].x - gameState.ball.x = Units(24)
  /\ gameState.coins[1].y - gameState.ball.y = Units(32)

\* C29: the tick in which the ball hits the ground or an obstacle still
\* runs the rest of the step: the obstacles and the coins are advanced and
\* culled, score grows by 1, and the coins in reach of the ball are removed,
\* credited to collectedCoins and saved, although the phase is gameOver.
C29_LastTickRunsToItsEnd ==
  [][(/\ engine = "full" /\ lastOp' = "tick"
      /\ gameState.currentScreen = "playing"
      /\ gameState'.currentScreen = "gameOver") =>
       /\ gameState'.obstacles = AdvanceAndCull(gameState.obstacles)
       /\ gameState'.score = gameState.score + 1
       /\ \E cn \in CoinRolls :
            LET ball == gameState'.ball
                moved == AdvanceAndCull(gameState.coins)
                present == IF cn # <<>>
                           THEN Append(moved, newCoin(cn[1].side, cn[1].value, cn[1].y,
                                  getDifficultyMultiplier(gameState.score).speedMultiplier))
                           ELSE moved
                Taken(c) == DistanceLess(ball.x - c.x, ball.y - c.y, ballRadius + c.radius)
                Left(c) == ~Taken(c)
                credit == CoinsValue(SelectSeq(present, Taken))
            IN /\ gameState'.coins = SelectSeq(present, Left)
               /\ gameState'.collectedCoins = gameState.collectedCoins + credit
               /\ credit > 0 =>
                    storage'.juggleJamCoins = NumToString(gameState.collectedCoins + credit)]_vars

\* C29 witness: the first tick has put the ball on the ground line, culled
\* the obstacle at the border and collected both coins
C29_CollectedOnTheGround ==
  /\ engine = "full"
  /\ lastOp = "tick"
  /\ gameState.currentScreen = "gameOver"
  /\ gameState.ball.y = SCREEN_HEIGHT - ballRadius
  /\ gameState.score = 1
  /\ gameState.obstacles = <<>>
  /\ gameState.coins = <<>>
  /\ gameState.collectedCoins = 6
  /\ storage.juggleJamCoins = NumToString(6)

\* C30: a tick whose integrated ball position has
\* y >= SCREEN_HEIGHT - ballRadius ends with the phase gameOver (gameOver
\* true and isPlaying false in the flap and radial engines), and a tick
\* takes the phase from playing to gameOver only if the ball is on or under
\* the ground line or nearer to the centre of an obstacle than
\* ballRadius + min(width, height) / 2.
C30_GameOverIffGroundOrHit ==
  [][lastOp' = "tick" =>
       LET ball == gameState'.ball
           ground == ball.y >= SCREEN_HEIGHT - ballRadius
           Struck(o) == LET dx == ball.x - (o.x + o.width \div 2)
                            dy == ball.y - (o.y + o.height \div 2)
                            r == ballRadius + Min(o.width, o.height) \div 2
                        IN Abs(dx) < r /\ Abs(dy) < r /\ dx * dx + dy * dy < r * r
           hit == \E i \in DOMAIN gameState'.obstacles : Struck(gameState'.obstacles[i])
       IN IF engine = "full"
          THEN /\ ground => gameState'.currentScreen = "gameOver"
               /\ (gameState.currentScreen = "playing" /\ gameState'.currentScreen = "gameOver")
                    => (ground \/ hit)
          ELSE /\ ground => (gameState'.gameOver /\ ~gameState'.isPlaying)
               /\ (~gameState.gameOver /\ gameState'.gameOver) => (ground \/ hit)]_vars

\* C30 witness: the first tick of the radial engine has put the ball on the
\* ground line exactly, away from every obstacle, and has ended the run
C30_RestsOnTheLine ==
  /\ engine = "radial"
  /\ lastOp = "tick"
  /\ gameState.score = 1
  /\ gameState.ball.y = SCREEN_HEIGHT - ballRadius
  /\ gameState.obstacles = <<>>
  /\ gameState.gameOver
  /\ ~gameState.isPlaying

\* C31: after the obstacles are advanced and culled, a tick that leaves the
\* ball above the ground line ends the run exactly when some obstacle has
\* its centre (position + (width, height) / 2) nearer to the centre of the
\* ball than ballRadius + min(width, height) / 2; an obstacle at that
\* distance or farther does not end the run.
C31_HitIffNearerThanThreshold ==
  [][(lastOp' = "tick" /\ gameState'.ball.y < SCREEN_HEIGHT - ballRadius) =>
       LET ball == gameState'.ball
           Near(o) == LET dx == ball.x - (o.x + o.width \div 2)
                          dy == ball.y - (o.y + o.height \div 2)
                          r == ballRadius + Min(o.width, o.height) \div 2
                      IN Abs(dx) < r /\ Abs(dy) < r /\ dx * dx + dy * dy < r * r
           near == \E i \in DOMAIN gameState'.obstacles : Near(gameState'.obstacles[i])
       IN IF engine = "full"
          THEN gameState.currentScreen = "playing" =>
                 (gameState'.currentScreen = "gameOver" <=> near)
          ELSE ~gameState.gameOver => (gameState'.gameOver <=> near)]_vars

\* C31 witness: the first tick has left a cone with its centre at 40 units
\* from the ball exactly, and the run goes on
C31_ConeAtTheThreshold ==
  /\ engine = "full"
  /\ lastOp = "tick"
  /\ gameState.score = 1
  /\ gameState.currentScreen = "playing"
  /\ Len(gameState.obstacles) = 1
  /\ gameState.obstacles[1].x + gameState.obstacles[1].width \div 2 - gameState.ball.x = Units(24)
  /\ gameState.obstacles[1].y + gameState.obstacles[1].height \div 2 - gameState.ball.y = Units(32)

\* C32 (as stated): on a window at least 2 * ballRadius wide,
\* ballRadius <= ball.x <= width - ballRadius in every state of a run, and a
\* tick that clamps the ball at the left wall leaves velocity.x at 0.7
\* times the magnitude of the damped velocity, non-negative, and at the
\* right wall at 0.7 times that magnitude, non-positive.
C32_WallsOfAnyWindow ==
  [][screenWidth >= 2 * ballRadius =>
       LET damped == Abs(MulFrac(gameState.ball.vx, 95, 100))
           x1 == gameState.ball.x + gameState.ball.vx
       IN /\ gameState'.ball.x >= ballRadius
          /\ gameState'.ball.x <= screenWidth - ballRadius
          /\ (lastOp' = "tick" /\ x1 <= ballRadius) =>
               (gameState'.ball.vx = MulFrac(damped, 7, 10) /\ gameState'.ball.vx >= 0)
          /\ (lastOp' = "tick" /\ x1 >= screenWidth - ballRadius) =>
               (gameState'.ball.vx = -MulFrac(damped, 7, 10) /\ gameState'.ball.vx <= 0)]_vars

\* C32 (amended): the same on a window wider than 2 * ballRadius, where the
\* two walls are apart.
C32_WallsApart ==
  [][screenWidth > 2 * ballRadius =>
       LET damped == Abs(MulFrac(gameState.ball.vx, 95, 100))
           x1 == gameState.ball.x + gameState.ball.vx
       IN /\ gameState'.ball.x >= ballRadius
          /\ gameState'.ball.x <= screenWidth - ballRadius
          /\ (lastOp' = "tick" /\ x1 <= ballRadius) =>
               (gameState'.ball.vx = MulFrac(damped, 7, 10) /\ gameState'.ball.vx >= 0)
          /\ (lastOp' = "tick" /\ x1 >= screenWidth - ballRadius) =>
               (gameState'.ball.vx = -MulFrac(damped, 7, 10) /\ gameState'.ball.vx <= 0)]_vars

\* C32 witness: on a window wider than the ball a tick has clamped the ball
\* at the left wall and sent it back to the right
C32_BouncedOffTheLeftWall ==
  /\ screenWidth > 2 * ballRadius
  /\ lastOp = "tick"
  /\ gameState.score = 1
  /\ gameState.ball.x = ballRadius
  /\ gameState.ball.vx = MulFrac(MulFrac(Units(4), 95, 100), 7, 10)

\* C33: score grows by exactly 1 in every executed tick, the tick that ends
\* the run included; a start or a restart sets it to 0; no other step (tap,
\* watch-ad continue, render, timer, load, menu, store) changes it.  The
\* score shown and submitted is floor(score / 60) of the rendered score.
C33_ScoreCountsTicks ==
  [][/\ gameState'.score =
          IF lastOp' = "tick" THEN gameState.score + 1
          ELSE IF lastOp' \in {"start", "restart"} THEN 0
          ELSE gameState.score
     /\ pending' = 0 => FloorDiv(closure'.score, 60) = gameState'.score \div 60]_vars

\* C33 witness: the run has been ended by a tick that counted, and the
\* watch-ad continue has kept the score
C33_ScoreKeptByContinue ==
  /\ lastOp = "watchAd"
  /\ gameState.currentScreen = "playing"
  /\ gameState.score > 1

C35_HundredCoinsInOneRun ==
  [][lastOp' # "load" =>
       \A i \in DOMAIN gameState.achievements :
          (/\ gameState.achievements[i].id = "collect_100_one_game"
           /\ ~gameState.achievements[i].completed
           /\ gameState'.achievements[i].completed) => runCoins' >= 100]_vars

\* C36: the speed multiplier is at its maximum of 2.2 once 7200 ticks (two
\* minutes) have been survived, and the spawn multiplier at its maximum of
\* 3.5 once 5400 ticks (a minute and a half) have been survived.
C36_CapsAfterTwoMinutes ==
  LET m == getDifficultyMultiplier(gameState.score)
  IN /\ gameState.score >= 7200 => m.speedMultiplier * 10 = 22 * MultiplierDen
     /\ gameState.score >= 5400 => m.spawnMultiplier * 10 = 35 * MultiplierDen

\* C37: a step grants a daily reward only for a day between 1 and the
\* current streak whose slot is unclaimed: it marks that slot claimed and
\* adds exactly the coins of the slot to collectedCoins.  No other step
\* marks a slot claimed, and a claimed slot becomes unclaimed only when the
\* stored rewards are loaded or the streak wraps at launch, so the coins
\* of a slot are granted at most once.
C37_RewardGrantedOncePerSlot ==
  [][/\ lastOp' = "claim" =>
          \E day \in DOMAIN gameState.dailyRewards :
             /\ 1 <= day /\ day <= gameState.currentStreak
             /\ ~gameState.dailyRewards[day].claimed
             /\ gameState'.dailyRewards =
                  [gameState.dailyRewards EXCEPT ![day].claimed = TRUE]
             /\ gameState'.collectedCoins =
                  gameState.collectedCoins + gameState.dailyRewards[day].coins
     /\ lastOp' # "claim" /\ Len(gameState'.dailyRewards) = Len(gameState.dailyRewards) =>
          \A day \in DOMAIN gameState.dailyRewards :
             gameState'.dailyRewards[day].claimed # gameState.dailyRewards[day].claimed
               => lastOp' = "load"]_vars

\* the first daily reward has been claimed and its 10 coins are held
C37_FirstDayClaimed ==
  /\ lastOp = "claim"
  /\ gameState.currentStreak = 1
  /\ gameState.dailyRewards[1].claimed
  /\ gameState.collectedCoins = 10

----------------------------------------------------------------------------
(* The store after a long run: the first run of a fresh profile is in its
   last tick, the ball 0.1 px above the ground line; the player then walks
   from the game over screen to the store while the reward timers of the
   finalization are still due *)

\* coins collected by the ticks of the run so far
StoreRunCoins == {0, 65, 90}
\* ticks survived so far: one short of 1 s and of 60 s
StoreTicks == {59, 3599}

InitStore ==
  /\ engine = "full"
  /\ saved = EmptyStorage
  /\ loadState = "done"
  /\ \E collected \in StoreRunCoins, ticks \in StoreTicks :
       \E ctx \in {RunInFlight(saved, TRUE, ticks)} :
          /\ gameState = [ctx.gs EXCEPT !.collectedCoins = @ + collected]
          /\ storage = [ctx.storage EXCEPT
                          !.juggleJamCoins = NumToString(ctx.gs.collectedCoins + collected)]
          /\ timers = ctx.timers
          /\ runCoins = collected
  /\ closure = Closure(gameState)
  /\ pending = 0
  /\ now = 1
  /\ inputs = 0
  /\ games = TRUE
  /\ lastOp = "start"
  /\ submitted = {}
  /\ rejected = {}
  /\ screenWidth = SCREEN_WIDTH

NextStore ==
  \/ FinalTick
  \/ FinalTimerFire
  \/ Render
  \/ ReturnToMenu
  \/ GoToStore
  \/ PurchaseSkinWithCoins

SpecStore == InitStore /\ [][NextStore]_vars

\* C38: collectedCoins is never negative, and a coin purchase deducts the
\* price of a skin only when the balance held at that moment is at least
\* the price and the skin is not unlocked yet.
C38_CoinsNeverNegative ==
  [][/\ gameState'.collectedCoins >= 0
     /\ lastOp' = "buyCoins" =>
          \E i \in DOMAIN SkinIds :
             /\ gameState.collectedCoins >= coinPrice(SkinIds[i])
             /\ ~Includes(gameState.unlockedSkins, SkinIds[i])
             /\ gameState'.collectedCoins =
                  gameState.collectedCoins - coinPrice(SkinIds[i])
             /\ gameState'.unlockedSkins =
                  Append(gameState.unlockedSkins, SkinIds[i])]_vars

\* C39: unlockedSkins, in the state and in the render the finalization
\* samples, holds no skin id twice and holds "classic": its length is the
\* number of distinct unlocked skins.
C39_UnlockedSkinsIsASet ==
  \A skins \in {gameState.unlockedSkins, closure.unlockedSkins} :
     /\ Includes(skins, "classic")
     /\ \A i, j \in DOMAIN skins : skins[i] = skins[j] => i = j
     /\ Len(skins) = Cardinality({skins[i] : i \in DOMAIN skins})

\* the basketball has been bought with cash and stored with classic
C39_BoughtWithCash ==
  /\ lastOp = "buyCash"
  /\ gameState.unlockedSkins = <<"classic", "basketball">>
  /\ closure.unlockedSkins = gameState.unlockedSkins
  /\ storage.juggleJamUnlockedSkins = JSONstringify(gameState.unlockedSkins)

\* C40: totalGamesPlayed never decreases, and the step in which the
\* startup load resolves keeps the progress made before it: the games
\* played, the completed achievements and their progress, and the coins
\* collected or granted so far.
C40_LoadKeepsProgress ==
  [][/\ gameState'.totalGamesPlayed >= gameState.totalGamesPlayed
     /\ lastOp' = "load" =>
          /\ gameState'.collectedCoins >= gameState.collectedCoins
          /\ \A i \in DOMAIN gameState.achievements :
                /\ gameState.achievements[i].completed
                      => gameState'.achievements[i].completed
                /\ gameState'.achievements[i].progress
                      >= gameState.achievements[i].progress]_vars

====
